---- MODULE Spec2Model ----
(***************************************************************************)
(* Model of app.py: the Flask /analyze route, the prompt builder, the      *)
(* managed-library (google.generativeai) and raw-network (requests.post)   *)
(* clients, and the fallback orchestration of summarize / image_context.   *)
(*                                                                         *)
(* A Python str is the sequence of its code points; a literal of the       *)
(* source is written Codes("...").  A JSON / Python value is a record with *)
(* a kind field k.                                                         *)
(***************************************************************************)
EXTENDS Integers, Sequences, FiniteSets, TLC

-----------------------------------------------------------------------------
(* State                                                                   *)

VARIABLES
    API_KEY,        \* "" when neither GEMINI_API_KEY nor GOOGLE_API_KEY is set
    DEFAULT_MODEL,  \* os.getenv("MODEL", "gemini-2.0-flash")
    _genai_model,   \* the library handle: GenerativeModel(name), or None
    th,             \* per worker thread: the /analyze call it is executing
    pb,             \* a direct use of the prompt builders: inputs and results
    boot            \* how far the module-level initialisation has run

vars == <<API_KEY, DEFAULT_MODEL, _genai_model, th, pb, boot>>

\* The worker threads of the hosting server.
Threads == {"t1", "t2"}

-----------------------------------------------------------------------------
(* Characters                                                              *)

\* A Python str is the sequence of its code points, integers in 0..1114111.

\* The printable ASCII characters the literals of the source are written
\* with, in the order of their code points: U+0020..U+005F, U+0061..U+007E.
Ascii ==
    " !\"#$%&'()*+,-./0123456789:;<=>?@ABCDEFGHIJKLMNOPQRSTUVWXYZ[\\]^_abcdefghijklmnopqrstuvwxyz{|}~"

\* ord(c) of a character of a literal.
Ord ==
    [c \in {SubSeq(Ascii, n, n) : n \in 1..Len(Ascii)} \cup {"\n"} |->
        IF c = "\n" THEN 10
        ELSE IF \E n \in 1..64 : SubSeq(Ascii, n, n) = c
        THEN 31 + CHOOSE n \in 1..64 : SubSeq(Ascii, n, n) = c
        ELSE 32 + CHOOSE n \in 65..Len(Ascii) : SubSeq(Ascii, n, n) = c]

\* The str a literal of the source denotes.
Codes(literal) == [i \in 1..Len(literal) |-> Ord[SubSeq(literal, i, i)]]

\* The concatenation of a sequence of strs.
RECURSIVE Flat(_)
Flat(ss) ==
    IF Len(ss) = 0 THEN <<>>
    ELSE IF Len(ss) = 1 THEN ss[1]
    ELSE Flat(SubSeq(ss, 1, Len(ss) \div 2)) \o Flat(SubSeq(ss, Len(ss) \div 2 + 1, Len(ss)))

\* The index of the first character of cs from i on that In does not hold
\* of, Len(cs) + 1 without one; the index of the last character of cs that
\* In does not hold of, 0 without one.
RunEnd(cs, i, In(_)) ==
    CHOOSE j \in i..(Len(cs) + 1) :
        (j = Len(cs) + 1 \/ ~In(cs[j])) /\ \A n \in i..(j - 1) : In(cs[n])
RunStart(cs, In(_)) ==
    Len(cs) - (CHOOSE n \in 0..Len(cs) :
                  /\ n = Len(cs) \/ ~In(cs[Len(cs) - n])
                  /\ \A j \in (Len(cs) - n + 1)..Len(cs) : In(cs[j]))

\* Whether a code point lies in one of the ranges <<first, last>> of a table.
InRanges(table, c) == \E n \in 1..Len(table) : table[n][1] <= c /\ c <= table[n][2]

\* The decimal and the hexadecimal digit of a number.
Digit(n) == Ord["0"] + n
HexDigit(n) == IF n < 10 THEN Ord["0"] + n ELSE Ord["a"] + n - 10
IsDigit(c) == c \in Ord["0"]..Ord["9"]

\* str(n) of an int.
RECURSIVE Decimal(_)
Decimal(n) ==
    IF n < 0 THEN <<Ord["-"]>> \o Decimal(0 - n)
    ELSE IF n < 10 THEN <<Digit(n)>>
    ELSE Append(Decimal(n \div 10), Digit(n % 10))

-----------------------------------------------------------------------------
(* Python values                                                           *)

None == [k |-> "none"]
Bool(b) == [k |-> "bool", b |-> b]
Str(s) == [k |-> "str", s |-> s]
Num(n) == [k |-> "num", n |-> n]
\* A float, and an int too long for a TLC integer: the characters of its
\* repr().
Float(lit) == [k |-> "float", lit |-> lit]
Long(lit) == [k |-> "long", lit |-> lit]
List(xs) == [k |-> "list", xs |-> xs]
Raise(e) == [k |-> "raise", exc |-> e, msg |-> <<>>]

\* The keys of a sequence of <<key, value>> items, in the order of their
\* first insertion.
AddKey(keys, key) ==
    IF \E i \in 1..Len(keys) : keys[i] = key THEN keys ELSE Append(keys, key)
RECURSIVE KeysOf(_)
KeysOf(items) ==
    IF items = <<>> THEN <<>>
    ELSE AddKey(KeysOf(SubSeq(items, 1, Len(items) - 1)), items[Len(items)][1])

\* dict(items): keys keeps the insertion order, d maps a key to the value it
\* was last given.  A key is a str.
Dict(items) ==
    [k |-> "dict",
     keys |-> KeysOf(items),
     d |-> [key \in {items[i][1] : i \in 1..Len(items)} |->
              items[CHOOSE i \in 1..Len(items) :
                        /\ items[i][1] = key
                        /\ \A j \in (i + 1)..Len(items) : items[j][1] # key][2]]]

\* type(v).__name__
PyType(v) ==
    CASE v.k = "none"  -> Codes("NoneType")
      [] v.k = "num"   -> Codes("int")
      [] v.k = "long"  -> Codes("int")
      [] OTHER         -> Codes(v.k)

\* The AttributeError of v.attr on a value without that attribute.
AttributeError(v, attr) ==
    [k |-> "raise", exc |-> "AttributeError",
     msg |-> Codes("'") \o PyType(v) \o Codes("' object has no attribute '")
             \o Codes(attr) \o Codes("'")]

EmptyDict == Dict(<<>>)

\* bool(x) of a float from its repr(): every float but 0.0 and -0.0.
FloatTruthy(lit) == lit \notin {Codes("0.0"), Codes("-0.0")}

\* Python truthiness, as used by `x or default`, `if not x`, `if x`.
Truthy(v) ==
    CASE v.k = "none"  -> FALSE
      [] v.k = "bool"  -> v.b
      [] v.k = "str"   -> v.s # <<>>
      [] v.k = "num"   -> v.n # 0
      [] v.k = "float" -> FloatTruthy(v.lit)
      [] v.k = "list"  -> Len(v.xs) > 0
      [] v.k = "dict"  -> v.keys # <<>>
      [] OTHER         -> TRUE

\* `a or b`
Or(a, b) == IF Truthy(a) THEN a ELSE b

\* dict.get(key) for a literal key: the value, or None when the key is
\* absent.
Get(dict, key) == LET name == Codes(key) IN IF name \in DOMAIN dict.d THEN dict.d[name] ELSE None

\* a == b for a str b.
EqStr(a, b) == a.k = "str" /\ a.s = b

-----------------------------------------------------------------------------
(* str methods                                                             *)

\* str.isspace() of a character: U+0009..U+000D, U+001C..U+0020, U+0085,
\* U+00A0, U+1680, U+2000..U+200A, U+2028, U+2029, U+202F, U+205F, U+3000.
IsSpace(c) ==
    \/ c \in 9..13 \/ c \in 28..32 \/ c \in {133, 160, 5760} \/ c \in 8192..8202
    \/ c \in {8232, 8233, 8239, 8287, 12288}

\* str.lstrip(), str.rstrip(), str.strip()
LStrip(s) == SubSeq(s, RunEnd(s, 1, IsSpace), Len(s))
RStrip(s) == SubSeq(s, 1, RunStart(s, IsSpace))
Strip(s) == RStrip(LStrip(s))

\* The code points with a lower-case mapping of one code point: of every
\* <<first, last, step, delta>> the code points first, first + step, .., last
\* map to themselves plus delta.
LowerTable ==
    <<<<65, 90, 1, 32>>, <<192, 214, 1, 32>>, <<216, 222, 1, 32>>, <<256, 302, 2, 1>>,
      <<306, 310, 2, 1>>, <<313, 327, 2, 1>>, <<330, 374, 2, 1>>, <<376, 376, 1, -121>>,
      <<377, 381, 2, 1>>, <<385, 385, 1, 210>>, <<386, 388, 2, 1>>, <<390, 390, 1, 206>>,
      <<391, 391, 1, 1>>, <<393, 394, 1, 205>>, <<395, 395, 1, 1>>, <<398, 398, 1, 79>>,
      <<399, 399, 1, 202>>, <<400, 400, 1, 203>>, <<401, 401, 1, 1>>, <<403, 403, 1, 205>>,
      <<404, 404, 1, 207>>, <<406, 406, 1, 211>>, <<407, 407, 1, 209>>, <<408, 408, 1, 1>>,
      <<412, 412, 1, 211>>, <<413, 413, 1, 213>>, <<415, 415, 1, 214>>, <<416, 420, 2, 1>>,
      <<422, 422, 1, 218>>, <<423, 423, 1, 1>>, <<425, 425, 1, 218>>, <<428, 428, 1, 1>>,
      <<430, 430, 1, 218>>, <<431, 431, 1, 1>>, <<433, 434, 1, 217>>, <<435, 437, 2, 1>>,
      <<439, 439, 1, 219>>, <<440, 440, 1, 1>>, <<444, 444, 1, 1>>, <<452, 452, 1, 2>>,
      <<453, 453, 1, 1>>, <<455, 455, 1, 2>>, <<456, 456, 1, 1>>, <<458, 458, 1, 2>>,
      <<459, 475, 2, 1>>, <<478, 494, 2, 1>>, <<497, 497, 1, 2>>, <<498, 500, 2, 1>>,
      <<502, 502, 1, -97>>, <<503, 503, 1, -56>>, <<504, 542, 2, 1>>, <<544, 544, 1, -130>>,
      <<546, 562, 2, 1>>, <<570, 570, 1, 10795>>, <<571, 571, 1, 1>>, <<573, 573, 1, -163>>,
      <<574, 574, 1, 10792>>, <<577, 577, 1, 1>>, <<579, 579, 1, -195>>, <<580, 580, 1, 69>>,
      <<581, 581, 1, 71>>, <<582, 590, 2, 1>>, <<880, 882, 2, 1>>, <<886, 886, 1, 1>>,
      <<895, 895, 1, 116>>, <<902, 902, 1, 38>>, <<904, 906, 1, 37>>, <<908, 908, 1, 64>>,
      <<910, 911, 1, 63>>, <<913, 929, 1, 32>>, <<931, 939, 1, 32>>, <<975, 975, 1, 8>>,
      <<984, 1006, 2, 1>>, <<1012, 1012, 1, -60>>, <<1015, 1015, 1, 1>>, <<1017, 1017, 1, -7>>,
      <<1018, 1018, 1, 1>>, <<1021, 1023, 1, -130>>, <<1024, 1039, 1, 80>>, <<1040, 1071, 1, 32>>,
      <<1120, 1152, 2, 1>>, <<1162, 1214, 2, 1>>, <<1216, 1216, 1, 15>>, <<1217, 1229, 2, 1>>,
      <<1232, 1326, 2, 1>>, <<1329, 1366, 1, 48>>, <<4256, 4293, 1, 7264>>, <<4295, 4295, 1, 7264>>,
      <<4301, 4301, 1, 7264>>, <<5024, 5103, 1, 38864>>, <<5104, 5109, 1, 8>>, <<7312, 7354, 1, -3008>>,
      <<7357, 7359, 1, -3008>>, <<7680, 7828, 2, 1>>, <<7838, 7838, 1, -7615>>, <<7840, 7934, 2, 1>>,
      <<7944, 7951, 1, -8>>, <<7960, 7965, 1, -8>>, <<7976, 7983, 1, -8>>, <<7992, 7999, 1, -8>>,
      <<8008, 8013, 1, -8>>, <<8025, 8031, 2, -8>>, <<8040, 8047, 1, -8>>, <<8072, 8079, 1, -8>>,
      <<8088, 8095, 1, -8>>, <<8104, 8111, 1, -8>>, <<8120, 8121, 1, -8>>, <<8122, 8123, 1, -74>>,
      <<8124, 8124, 1, -9>>, <<8136, 8139, 1, -86>>, <<8140, 8140, 1, -9>>, <<8152, 8153, 1, -8>>,
      <<8154, 8155, 1, -100>>, <<8168, 8169, 1, -8>>, <<8170, 8171, 1, -112>>, <<8172, 8172, 1, -7>>,
      <<8184, 8185, 1, -128>>, <<8186, 8187, 1, -126>>, <<8188, 8188, 1, -9>>, <<8486, 8486, 1, -7517>>,
      <<8490, 8490, 1, -8383>>, <<8491, 8491, 1, -8262>>, <<8498, 8498, 1, 28>>, <<8544, 8559, 1, 16>>,
      <<8579, 8579, 1, 1>>, <<9398, 9423, 1, 26>>, <<11264, 11311, 1, 48>>, <<11360, 11360, 1, 1>>,
      <<11362, 11362, 1, -10743>>, <<11363, 11363, 1, -3814>>, <<11364, 11364, 1, -10727>>, <<11367, 11371, 2, 1>>,
      <<11373, 11373, 1, -10780>>, <<11374, 11374, 1, -10749>>, <<11375, 11375, 1, -10783>>, <<11376, 11376, 1, -10782>>,
      <<11378, 11378, 1, 1>>, <<11381, 11381, 1, 1>>, <<11390, 11391, 1, -10815>>, <<11392, 11490, 2, 1>>,
      <<11499, 11501, 2, 1>>, <<11506, 11506, 1, 1>>, <<42560, 42604, 2, 1>>, <<42624, 42650, 2, 1>>,
      <<42786, 42798, 2, 1>>, <<42802, 42862, 2, 1>>, <<42873, 42875, 2, 1>>, <<42877, 42877, 1, -35332>>,
      <<42878, 42886, 2, 1>>, <<42891, 42891, 1, 1>>, <<42893, 42893, 1, -42280>>, <<42896, 42898, 2, 1>>,
      <<42902, 42920, 2, 1>>, <<42922, 42922, 1, -42308>>, <<42923, 42923, 1, -42319>>, <<42924, 42924, 1, -42315>>,
      <<42925, 42925, 1, -42305>>, <<42926, 42926, 1, -42308>>, <<42928, 42928, 1, -42258>>, <<42929, 42929, 1, -42282>>,
      <<42930, 42930, 1, -42261>>, <<42931, 42931, 1, 928>>, <<42932, 42946, 2, 1>>, <<42948, 42948, 1, -48>>,
      <<42949, 42949, 1, -42307>>, <<42950, 42950, 1, -35384>>, <<42951, 42953, 2, 1>>, <<42960, 42960, 1, 1>>,
      <<42966, 42968, 2, 1>>, <<42997, 42997, 1, 1>>, <<65313, 65338, 1, 32>>, <<66560, 66599, 1, 40>>,
      <<66736, 66771, 1, 40>>, <<66928, 66938, 1, 39>>, <<66940, 66954, 1, 39>>, <<66956, 66962, 1, 39>>,
      <<66964, 66965, 1, 39>>, <<68736, 68786, 1, 64>>, <<71840, 71871, 1, 32>>, <<93760, 93791, 1, 32>>,
      <<125184, 125217, 1, 34>>>>

\* The code points Python's final-sigma rule skips (case-ignorable), and
\* those among the others it takes for letters with a case (cased).
CaseIgnorable ==
    <<<<39, 39>>, <<46, 46>>, <<58, 58>>, <<94, 94>>, <<96, 96>>,
      <<168, 168>>, <<173, 173>>, <<175, 175>>, <<180, 180>>, <<183, 184>>,
      <<688, 879>>, <<884, 885>>, <<890, 890>>, <<900, 901>>, <<903, 903>>,
      <<1155, 1161>>, <<1369, 1369>>, <<1375, 1375>>, <<1425, 1469>>, <<1471, 1471>>,
      <<1473, 1474>>, <<1476, 1477>>, <<1479, 1479>>, <<1524, 1524>>, <<1536, 1541>>,
      <<1552, 1562>>, <<1564, 1564>>, <<1600, 1600>>, <<1611, 1631>>, <<1648, 1648>>,
      <<1750, 1757>>, <<1759, 1768>>, <<1770, 1773>>, <<1807, 1807>>, <<1809, 1809>>,
      <<1840, 1866>>, <<1958, 1968>>, <<2027, 2037>>, <<2042, 2042>>, <<2045, 2045>>,
      <<2070, 2093>>, <<2137, 2139>>, <<2184, 2184>>, <<2192, 2193>>, <<2200, 2207>>,
      <<2249, 2306>>, <<2362, 2362>>, <<2364, 2364>>, <<2369, 2376>>, <<2381, 2381>>,
      <<2385, 2391>>, <<2402, 2403>>, <<2417, 2417>>, <<2433, 2433>>, <<2492, 2492>>,
      <<2497, 2500>>, <<2509, 2509>>, <<2530, 2531>>, <<2558, 2558>>, <<2561, 2562>>,
      <<2620, 2620>>, <<2625, 2626>>, <<2631, 2632>>, <<2635, 2637>>, <<2641, 2641>>,
      <<2672, 2673>>, <<2677, 2677>>, <<2689, 2690>>, <<2748, 2748>>, <<2753, 2757>>,
      <<2759, 2760>>, <<2765, 2765>>, <<2786, 2787>>, <<2810, 2815>>, <<2817, 2817>>,
      <<2876, 2876>>, <<2879, 2879>>, <<2881, 2884>>, <<2893, 2893>>, <<2901, 2902>>,
      <<2914, 2915>>, <<2946, 2946>>, <<3008, 3008>>, <<3021, 3021>>, <<3072, 3072>>,
      <<3076, 3076>>, <<3132, 3132>>, <<3134, 3136>>, <<3142, 3144>>, <<3146, 3149>>,
      <<3157, 3158>>, <<3170, 3171>>, <<3201, 3201>>, <<3260, 3260>>, <<3263, 3263>>,
      <<3270, 3270>>, <<3276, 3277>>, <<3298, 3299>>, <<3328, 3329>>, <<3387, 3388>>,
      <<3393, 3396>>, <<3405, 3405>>, <<3426, 3427>>, <<3457, 3457>>, <<3530, 3530>>,
      <<3538, 3540>>, <<3542, 3542>>, <<3633, 3633>>, <<3636, 3642>>, <<3654, 3662>>,
      <<3761, 3761>>, <<3764, 3772>>, <<3782, 3782>>, <<3784, 3789>>, <<3864, 3865>>,
      <<3893, 3893>>, <<3895, 3895>>, <<3897, 3897>>, <<3953, 3966>>, <<3968, 3972>>,
      <<3974, 3975>>, <<3981, 3991>>, <<3993, 4028>>, <<4038, 4038>>, <<4141, 4144>>,
      <<4146, 4151>>, <<4153, 4154>>, <<4157, 4158>>, <<4184, 4185>>, <<4190, 4192>>,
      <<4209, 4212>>, <<4226, 4226>>, <<4229, 4230>>, <<4237, 4237>>, <<4253, 4253>>,
      <<4348, 4348>>, <<4957, 4959>>, <<5906, 5908>>, <<5938, 5939>>, <<5970, 5971>>,
      <<6002, 6003>>, <<6068, 6069>>, <<6071, 6077>>, <<6086, 6086>>, <<6089, 6099>>,
      <<6103, 6103>>, <<6109, 6109>>, <<6155, 6159>>, <<6211, 6211>>, <<6277, 6278>>,
      <<6313, 6313>>, <<6432, 6434>>, <<6439, 6440>>, <<6450, 6450>>, <<6457, 6459>>,
      <<6679, 6680>>, <<6683, 6683>>, <<6742, 6742>>, <<6744, 6750>>, <<6752, 6752>>,
      <<6754, 6754>>, <<6757, 6764>>, <<6771, 6780>>, <<6783, 6783>>, <<6823, 6823>>,
      <<6832, 6862>>, <<6912, 6915>>, <<6964, 6964>>, <<6966, 6970>>, <<6972, 6972>>,
      <<6978, 6978>>, <<7019, 7027>>, <<7040, 7041>>, <<7074, 7077>>, <<7080, 7081>>,
      <<7083, 7085>>, <<7142, 7142>>, <<7144, 7145>>, <<7149, 7149>>, <<7151, 7153>>,
      <<7212, 7219>>, <<7222, 7223>>, <<7288, 7293>>, <<7376, 7378>>, <<7380, 7392>>,
      <<7394, 7400>>, <<7405, 7405>>, <<7412, 7412>>, <<7416, 7417>>, <<7468, 7530>>,
      <<7544, 7544>>, <<7579, 7679>>, <<8125, 8125>>, <<8127, 8129>>, <<8141, 8143>>,
      <<8157, 8159>>, <<8173, 8175>>, <<8189, 8190>>, <<8203, 8207>>, <<8216, 8217>>,
      <<8228, 8228>>, <<8231, 8231>>, <<8234, 8238>>, <<8288, 8292>>, <<8294, 8303>>,
      <<8305, 8305>>, <<8319, 8319>>, <<8336, 8348>>, <<8400, 8432>>, <<11388, 11389>>,
      <<11503, 11505>>, <<11631, 11631>>, <<11647, 11647>>, <<11744, 11775>>, <<11823, 11823>>,
      <<12293, 12293>>, <<12330, 12333>>, <<12337, 12341>>, <<12347, 12347>>, <<12441, 12446>>,
      <<12540, 12542>>, <<40981, 40981>>, <<42232, 42237>>, <<42508, 42508>>, <<42607, 42610>>,
      <<42612, 42621>>, <<42623, 42623>>, <<42652, 42655>>, <<42736, 42737>>, <<42752, 42785>>,
      <<42864, 42864>>, <<42888, 42890>>, <<42994, 42996>>, <<43000, 43001>>, <<43010, 43010>>,
      <<43014, 43014>>, <<43019, 43019>>, <<43045, 43046>>, <<43052, 43052>>, <<43204, 43205>>,
      <<43232, 43249>>, <<43263, 43263>>, <<43302, 43309>>, <<43335, 43345>>, <<43392, 43394>>,
      <<43443, 43443>>, <<43446, 43449>>, <<43452, 43453>>, <<43471, 43471>>, <<43493, 43494>>,
      <<43561, 43566>>, <<43569, 43570>>, <<43573, 43574>>, <<43587, 43587>>, <<43596, 43596>>,
      <<43632, 43632>>, <<43644, 43644>>, <<43696, 43696>>, <<43698, 43700>>, <<43703, 43704>>,
      <<43710, 43711>>, <<43713, 43713>>, <<43741, 43741>>, <<43756, 43757>>, <<43763, 43764>>,
      <<43766, 43766>>, <<43867, 43871>>, <<43881, 43883>>, <<44005, 44005>>, <<44008, 44008>>,
      <<44013, 44013>>, <<64286, 64286>>, <<64434, 64450>>, <<65024, 65039>>, <<65043, 65043>>,
      <<65056, 65071>>, <<65106, 65106>>, <<65109, 65109>>, <<65279, 65279>>, <<65287, 65287>>,
      <<65294, 65294>>, <<65306, 65306>>, <<65342, 65342>>, <<65344, 65344>>, <<65392, 65392>>,
      <<65438, 65439>>, <<65507, 65507>>, <<65529, 65531>>, <<66045, 66045>>, <<66272, 66272>>,
      <<66422, 66426>>, <<67456, 67461>>, <<67463, 67504>>, <<67506, 67514>>, <<68097, 68099>>,
      <<68101, 68102>>, <<68108, 68111>>, <<68152, 68154>>, <<68159, 68159>>, <<68325, 68326>>,
      <<68900, 68903>>, <<69291, 69292>>, <<69446, 69456>>, <<69506, 69509>>, <<69633, 69633>>,
      <<69688, 69702>>, <<69744, 69744>>, <<69747, 69748>>, <<69759, 69761>>, <<69811, 69814>>,
      <<69817, 69818>>, <<69821, 69821>>, <<69826, 69826>>, <<69837, 69837>>, <<69888, 69890>>,
      <<69927, 69931>>, <<69933, 69940>>, <<70003, 70003>>, <<70016, 70017>>, <<70070, 70078>>,
      <<70089, 70092>>, <<70095, 70095>>, <<70191, 70193>>, <<70196, 70196>>, <<70198, 70199>>,
      <<70206, 70206>>, <<70367, 70367>>, <<70371, 70378>>, <<70400, 70401>>, <<70459, 70460>>,
      <<70464, 70464>>, <<70502, 70508>>, <<70512, 70516>>, <<70712, 70719>>, <<70722, 70724>>,
      <<70726, 70726>>, <<70750, 70750>>, <<70835, 70840>>, <<70842, 70842>>, <<70847, 70848>>,
      <<70850, 70851>>, <<71090, 71093>>, <<71100, 71101>>, <<71103, 71104>>, <<71132, 71133>>,
      <<71219, 71226>>, <<71229, 71229>>, <<71231, 71232>>, <<71339, 71339>>, <<71341, 71341>>,
      <<71344, 71349>>, <<71351, 71351>>, <<71453, 71455>>, <<71458, 71461>>, <<71463, 71467>>,
      <<71727, 71735>>, <<71737, 71738>>, <<71995, 71996>>, <<71998, 71998>>, <<72003, 72003>>,
      <<72148, 72151>>, <<72154, 72155>>, <<72160, 72160>>, <<72193, 72202>>, <<72243, 72248>>,
      <<72251, 72254>>, <<72263, 72263>>, <<72273, 72278>>, <<72281, 72283>>, <<72330, 72342>>,
      <<72344, 72345>>, <<72752, 72758>>, <<72760, 72765>>, <<72767, 72767>>, <<72850, 72871>>,
      <<72874, 72880>>, <<72882, 72883>>, <<72885, 72886>>, <<73009, 73014>>, <<73018, 73018>>,
      <<73020, 73021>>, <<73023, 73029>>, <<73031, 73031>>, <<73104, 73105>>, <<73109, 73109>>,
      <<73111, 73111>>, <<73459, 73460>>, <<78896, 78904>>, <<92912, 92916>>, <<92976, 92982>>,
      <<92992, 92995>>, <<94031, 94031>>, <<94095, 94111>>, <<94176, 94177>>, <<94179, 94180>>,
      <<110576, 110579>>, <<110581, 110587>>, <<110589, 110590>>, <<113821, 113822>>, <<113824, 113827>>,
      <<118528, 118573>>, <<118576, 118598>>, <<119143, 119145>>, <<119155, 119170>>, <<119173, 119179>>,
      <<119210, 119213>>, <<119362, 119364>>, <<121344, 121398>>, <<121403, 121452>>, <<121461, 121461>>,
      <<121476, 121476>>, <<121499, 121503>>, <<121505, 121519>>, <<122880, 122886>>, <<122888, 122904>>,
      <<122907, 122913>>, <<122915, 122916>>, <<122918, 122922>>, <<123184, 123197>>, <<123566, 123566>>,
      <<123628, 123631>>, <<125136, 125142>>, <<125252, 125259>>, <<127995, 127999>>, <<917505, 917505>>,
      <<917536, 917631>>, <<917760, 917999>>>>

Cased ==
    <<<<65, 90>>, <<97, 122>>, <<170, 170>>, <<181, 181>>, <<186, 186>>,
      <<192, 214>>, <<216, 246>>, <<248, 442>>, <<444, 447>>, <<452, 659>>,
      <<661, 687>>, <<880, 883>>, <<886, 887>>, <<891, 893>>, <<895, 895>>,
      <<902, 902>>, <<904, 906>>, <<908, 908>>, <<910, 929>>, <<931, 1013>>,
      <<1015, 1153>>, <<1162, 1327>>, <<1329, 1366>>, <<1376, 1416>>, <<4256, 4293>>,
      <<4295, 4295>>, <<4301, 4301>>, <<4304, 4346>>, <<4349, 4351>>, <<5024, 5109>>,
      <<5112, 5117>>, <<7296, 7304>>, <<7312, 7354>>, <<7357, 7359>>, <<7424, 7467>>,
      <<7531, 7543>>, <<7545, 7578>>, <<7680, 7957>>, <<7960, 7965>>, <<7968, 8005>>,
      <<8008, 8013>>, <<8016, 8023>>, <<8025, 8025>>, <<8027, 8027>>, <<8029, 8029>>,
      <<8031, 8061>>, <<8064, 8116>>, <<8118, 8124>>, <<8126, 8126>>, <<8130, 8132>>,
      <<8134, 8140>>, <<8144, 8147>>, <<8150, 8155>>, <<8160, 8172>>, <<8178, 8180>>,
      <<8182, 8188>>, <<8450, 8450>>, <<8455, 8455>>, <<8458, 8467>>, <<8469, 8469>>,
      <<8473, 8477>>, <<8484, 8484>>, <<8486, 8486>>, <<8488, 8488>>, <<8490, 8493>>,
      <<8495, 8500>>, <<8505, 8505>>, <<8508, 8511>>, <<8517, 8521>>, <<8526, 8526>>,
      <<8544, 8575>>, <<8579, 8580>>, <<9398, 9449>>, <<11264, 11387>>, <<11390, 11492>>,
      <<11499, 11502>>, <<11506, 11507>>, <<11520, 11557>>, <<11559, 11559>>, <<11565, 11565>>,
      <<42560, 42605>>, <<42624, 42651>>, <<42786, 42863>>, <<42865, 42887>>, <<42891, 42894>>,
      <<42896, 42954>>, <<42960, 42961>>, <<42963, 42963>>, <<42965, 42969>>, <<42997, 42998>>,
      <<43002, 43002>>, <<43824, 43866>>, <<43872, 43880>>, <<43888, 43967>>, <<64256, 64262>>,
      <<64275, 64279>>, <<65313, 65338>>, <<65345, 65370>>, <<66560, 66639>>, <<66736, 66771>>,
      <<66776, 66811>>, <<66928, 66938>>, <<66940, 66954>>, <<66956, 66962>>, <<66964, 66965>>,
      <<66967, 66977>>, <<66979, 66993>>, <<66995, 67001>>, <<67003, 67004>>, <<68736, 68786>>,
      <<68800, 68850>>, <<71840, 71903>>, <<93760, 93823>>, <<119808, 119892>>, <<119894, 119964>>,
      <<119966, 119967>>, <<119970, 119970>>, <<119973, 119974>>, <<119977, 119980>>, <<119982, 119993>>,
      <<119995, 119995>>, <<119997, 120003>>, <<120005, 120069>>, <<120071, 120074>>, <<120077, 120084>>,
      <<120086, 120092>>, <<120094, 120121>>, <<120123, 120126>>, <<120128, 120132>>, <<120134, 120134>>,
      <<120138, 120144>>, <<120146, 120485>>, <<120488, 120512>>, <<120514, 120538>>, <<120540, 120570>>,
      <<120572, 120596>>, <<120598, 120628>>, <<120630, 120654>>, <<120656, 120686>>, <<120688, 120712>>,
      <<120714, 120744>>, <<120746, 120770>>, <<120772, 120779>>, <<122624, 122633>>, <<122635, 122654>>,
      <<125184, 125251>>, <<127280, 127305>>, <<127312, 127337>>, <<127344, 127369>>>>

\* c.lower() of a character.  U+0130 is the one character whose lower case
\* has two code points.
LowerChar(c) ==
    IF c < 128 THEN <<IF c \in Ord["A"]..Ord["Z"] THEN c + 32 ELSE c>>
    ELSE IF c = 304 THEN <<105, 775>>
    ELSE IF \E n \in 1..Len(LowerTable) :
                /\ LowerTable[n][1] <= c /\ c <= LowerTable[n][2]
                /\ (c - LowerTable[n][1]) % LowerTable[n][3] = 0
    THEN <<c + LowerTable[CHOOSE n \in 1..Len(LowerTable) :
                            /\ LowerTable[n][1] <= c /\ c <= LowerTable[n][2]
                            /\ (c - LowerTable[n][1]) % LowerTable[n][3] = 0][4]>>
    ELSE <<c>>

\* Whether the capital sigma at i is at the end of a word: a cased letter
\* stands before it and none after it, case-ignorable characters skipped.
FinalSigma(s, i) ==
    LET ignorable(c) == InRanges(CaseIgnorable, c)
        before == RunStart(SubSeq(s, 1, i - 1), ignorable)
        after == RunEnd(s, i + 1, ignorable)
    IN  /\ before > 0 /\ InRanges(Cased, s[before])
        /\ after > Len(s) \/ ~InRanges(Cased, s[after])

\* str.lower(): capital sigma U+03A3 becomes the final sigma U+03C2 at the
\* end of a word and the small sigma U+03C3 elsewhere.
LowerStr(s) ==
    Flat([i \in 1..Len(s) |->
            IF s[i] = 931 /\ FinalSigma(s, i) THEN <<962>> ELSE LowerChar(s[i])])

\* The code points from U+007F on that str.isprintable() does not hold of.
Unprintable ==
    <<<<0, 31>>, <<127, 160>>, <<173, 173>>, <<888, 889>>, <<896, 899>>,
      <<907, 907>>, <<909, 909>>, <<930, 930>>, <<1328, 1328>>, <<1367, 1368>>,
      <<1419, 1420>>, <<1424, 1424>>, <<1480, 1487>>, <<1515, 1518>>, <<1525, 1541>>,
      <<1564, 1564>>, <<1757, 1757>>, <<1806, 1807>>, <<1867, 1868>>, <<1970, 1983>>,
      <<2043, 2044>>, <<2094, 2095>>, <<2111, 2111>>, <<2140, 2141>>, <<2143, 2143>>,
      <<2155, 2159>>, <<2191, 2199>>, <<2274, 2274>>, <<2436, 2436>>, <<2445, 2446>>,
      <<2449, 2450>>, <<2473, 2473>>, <<2481, 2481>>, <<2483, 2485>>, <<2490, 2491>>,
      <<2501, 2502>>, <<2505, 2506>>, <<2511, 2518>>, <<2520, 2523>>, <<2526, 2526>>,
      <<2532, 2533>>, <<2559, 2560>>, <<2564, 2564>>, <<2571, 2574>>, <<2577, 2578>>,
      <<2601, 2601>>, <<2609, 2609>>, <<2612, 2612>>, <<2615, 2615>>, <<2618, 2619>>,
      <<2621, 2621>>, <<2627, 2630>>, <<2633, 2634>>, <<2638, 2640>>, <<2642, 2648>>,
      <<2653, 2653>>, <<2655, 2661>>, <<2679, 2688>>, <<2692, 2692>>, <<2702, 2702>>,
      <<2706, 2706>>, <<2729, 2729>>, <<2737, 2737>>, <<2740, 2740>>, <<2746, 2747>>,
      <<2758, 2758>>, <<2762, 2762>>, <<2766, 2767>>, <<2769, 2783>>, <<2788, 2789>>,
      <<2802, 2808>>, <<2816, 2816>>, <<2820, 2820>>, <<2829, 2830>>, <<2833, 2834>>,
      <<2857, 2857>>, <<2865, 2865>>, <<2868, 2868>>, <<2874, 2875>>, <<2885, 2886>>,
      <<2889, 2890>>, <<2894, 2900>>, <<2904, 2907>>, <<2910, 2910>>, <<2916, 2917>>,
      <<2936, 2945>>, <<2948, 2948>>, <<2955, 2957>>, <<2961, 2961>>, <<2966, 2968>>,
      <<2971, 2971>>, <<2973, 2973>>, <<2976, 2978>>, <<2981, 2983>>, <<2987, 2989>>,
      <<3002, 3005>>, <<3011, 3013>>, <<3017, 3017>>, <<3022, 3023>>, <<3025, 3030>>,
      <<3032, 3045>>, <<3067, 3071>>, <<3085, 3085>>, <<3089, 3089>>, <<3113, 3113>>,
      <<3130, 3131>>, <<3141, 3141>>, <<3145, 3145>>, <<3150, 3156>>, <<3159, 3159>>,
      <<3163, 3164>>, <<3166, 3167>>, <<3172, 3173>>, <<3184, 3190>>, <<3213, 3213>>,
      <<3217, 3217>>, <<3241, 3241>>, <<3252, 3252>>, <<3258, 3259>>, <<3269, 3269>>,
      <<3273, 3273>>, <<3278, 3284>>, <<3287, 3292>>, <<3295, 3295>>, <<3300, 3301>>,
      <<3312, 3312>>, <<3315, 3327>>, <<3341, 3341>>, <<3345, 3345>>, <<3397, 3397>>,
      <<3401, 3401>>, <<3408, 3411>>, <<3428, 3429>>, <<3456, 3456>>, <<3460, 3460>>,
      <<3479, 3481>>, <<3506, 3506>>, <<3516, 3516>>, <<3518, 3519>>, <<3527, 3529>>,
      <<3531, 3534>>, <<3541, 3541>>, <<3543, 3543>>, <<3552, 3557>>, <<3568, 3569>>,
      <<3573, 3584>>, <<3643, 3646>>, <<3676, 3712>>, <<3715, 3715>>, <<3717, 3717>>,
      <<3723, 3723>>, <<3748, 3748>>, <<3750, 3750>>, <<3774, 3775>>, <<3781, 3781>>,
      <<3783, 3783>>, <<3790, 3791>>, <<3802, 3803>>, <<3808, 3839>>, <<3912, 3912>>,
      <<3949, 3952>>, <<3992, 3992>>, <<4029, 4029>>, <<4045, 4045>>, <<4059, 4095>>,
      <<4294, 4294>>, <<4296, 4300>>, <<4302, 4303>>, <<4681, 4681>>, <<4686, 4687>>,
      <<4695, 4695>>, <<4697, 4697>>, <<4702, 4703>>, <<4745, 4745>>, <<4750, 4751>>,
      <<4785, 4785>>, <<4790, 4791>>, <<4799, 4799>>, <<4801, 4801>>, <<4806, 4807>>,
      <<4823, 4823>>, <<4881, 4881>>, <<4886, 4887>>, <<4955, 4956>>, <<4989, 4991>>,
      <<5018, 5023>>, <<5110, 5111>>, <<5118, 5119>>, <<5760, 5760>>, <<5789, 5791>>,
      <<5881, 5887>>, <<5910, 5918>>, <<5943, 5951>>, <<5972, 5983>>, <<5997, 5997>>,
      <<6001, 6001>>, <<6004, 6015>>, <<6110, 6111>>, <<6122, 6127>>, <<6138, 6143>>,
      <<6158, 6158>>, <<6170, 6175>>, <<6265, 6271>>, <<6315, 6319>>, <<6390, 6399>>,
      <<6431, 6431>>, <<6444, 6447>>, <<6460, 6463>>, <<6465, 6467>>, <<6510, 6511>>,
      <<6517, 6527>>, <<6572, 6575>>, <<6602, 6607>>, <<6619, 6621>>, <<6684, 6685>>,
      <<6751, 6751>>, <<6781, 6782>>, <<6794, 6799>>, <<6810, 6815>>, <<6830, 6831>>,
      <<6863, 6911>>, <<6989, 6991>>, <<7039, 7039>>, <<7156, 7163>>, <<7224, 7226>>,
      <<7242, 7244>>, <<7305, 7311>>, <<7355, 7356>>, <<7368, 7375>>, <<7419, 7423>>,
      <<7958, 7959>>, <<7966, 7967>>, <<8006, 8007>>, <<8014, 8015>>, <<8024, 8024>>,
      <<8026, 8026>>, <<8028, 8028>>, <<8030, 8030>>, <<8062, 8063>>, <<8117, 8117>>,
      <<8133, 8133>>, <<8148, 8149>>, <<8156, 8156>>, <<8176, 8177>>, <<8181, 8181>>,
      <<8191, 8207>>, <<8232, 8239>>, <<8287, 8303>>, <<8306, 8307>>, <<8335, 8335>>,
      <<8349, 8351>>, <<8385, 8399>>, <<8433, 8447>>, <<8588, 8591>>, <<9255, 9279>>,
      <<9291, 9311>>, <<11124, 11125>>, <<11158, 11158>>, <<11508, 11512>>, <<11558, 11558>>,
      <<11560, 11564>>, <<11566, 11567>>, <<11624, 11630>>, <<11633, 11646>>, <<11671, 11679>>,
      <<11687, 11687>>, <<11695, 11695>>, <<11703, 11703>>, <<11711, 11711>>, <<11719, 11719>>,
      <<11727, 11727>>, <<11735, 11735>>, <<11743, 11743>>, <<11870, 11903>>, <<11930, 11930>>,
      <<12020, 12031>>, <<12246, 12271>>, <<12284, 12288>>, <<12352, 12352>>, <<12439, 12440>>,
      <<12544, 12548>>, <<12592, 12592>>, <<12687, 12687>>, <<12772, 12783>>, <<12831, 12831>>,
      <<42125, 42127>>, <<42183, 42191>>, <<42540, 42559>>, <<42744, 42751>>, <<42955, 42959>>,
      <<42962, 42962>>, <<42964, 42964>>, <<42970, 42993>>, <<43053, 43055>>, <<43066, 43071>>,
      <<43128, 43135>>, <<43206, 43213>>, <<43226, 43231>>, <<43348, 43358>>, <<43389, 43391>>,
      <<43470, 43470>>, <<43482, 43485>>, <<43519, 43519>>, <<43575, 43583>>, <<43598, 43599>>,
      <<43610, 43611>>, <<43715, 43738>>, <<43767, 43776>>, <<43783, 43784>>, <<43791, 43792>>,
      <<43799, 43807>>, <<43815, 43815>>, <<43823, 43823>>, <<43884, 43887>>, <<44014, 44015>>,
      <<44026, 44031>>, <<55204, 55215>>, <<55239, 55242>>, <<55292, 63743>>, <<64110, 64111>>,
      <<64218, 64255>>, <<64263, 64274>>, <<64280, 64284>>, <<64311, 64311>>, <<64317, 64317>>,
      <<64319, 64319>>, <<64322, 64322>>, <<64325, 64325>>, <<64451, 64466>>, <<64912, 64913>>,
      <<64968, 64974>>, <<64976, 65007>>, <<65050, 65055>>, <<65107, 65107>>, <<65127, 65127>>,
      <<65132, 65135>>, <<65141, 65141>>, <<65277, 65280>>, <<65471, 65473>>, <<65480, 65481>>,
      <<65488, 65489>>, <<65496, 65497>>, <<65501, 65503>>, <<65511, 65511>>, <<65519, 65531>>,
      <<65534, 65535>>, <<65548, 65548>>, <<65575, 65575>>, <<65595, 65595>>, <<65598, 65598>>,
      <<65614, 65615>>, <<65630, 65663>>, <<65787, 65791>>, <<65795, 65798>>, <<65844, 65846>>,
      <<65935, 65935>>, <<65949, 65951>>, <<65953, 65999>>, <<66046, 66175>>, <<66205, 66207>>,
      <<66257, 66271>>, <<66300, 66303>>, <<66340, 66348>>, <<66379, 66383>>, <<66427, 66431>>,
      <<66462, 66462>>, <<66500, 66503>>, <<66518, 66559>>, <<66718, 66719>>, <<66730, 66735>>,
      <<66772, 66775>>, <<66812, 66815>>, <<66856, 66863>>, <<66916, 66926>>, <<66939, 66939>>,
      <<66955, 66955>>, <<66963, 66963>>, <<66966, 66966>>, <<66978, 66978>>, <<66994, 66994>>,
      <<67002, 67002>>, <<67005, 67071>>, <<67383, 67391>>, <<67414, 67423>>, <<67432, 67455>>,
      <<67462, 67462>>, <<67505, 67505>>, <<67515, 67583>>, <<67590, 67591>>, <<67593, 67593>>,
      <<67638, 67638>>, <<67641, 67643>>, <<67645, 67646>>, <<67670, 67670>>, <<67743, 67750>>,
      <<67760, 67807>>, <<67827, 67827>>, <<67830, 67834>>, <<67868, 67870>>, <<67898, 67902>>,
      <<67904, 67967>>, <<68024, 68027>>, <<68048, 68049>>, <<68100, 68100>>, <<68103, 68107>>,
      <<68116, 68116>>, <<68120, 68120>>, <<68150, 68151>>, <<68155, 68158>>, <<68169, 68175>>,
      <<68185, 68191>>, <<68256, 68287>>, <<68327, 68330>>, <<68343, 68351>>, <<68406, 68408>>,
      <<68438, 68439>>, <<68467, 68471>>, <<68498, 68504>>, <<68509, 68520>>, <<68528, 68607>>,
      <<68681, 68735>>, <<68787, 68799>>, <<68851, 68857>>, <<68904, 68911>>, <<68922, 69215>>,
      <<69247, 69247>>, <<69290, 69290>>, <<69294, 69295>>, <<69298, 69375>>, <<69416, 69423>>,
      <<69466, 69487>>, <<69514, 69551>>, <<69580, 69599>>, <<69623, 69631>>, <<69710, 69713>>,
      <<69750, 69758>>, <<69821, 69821>>, <<69827, 69839>>, <<69865, 69871>>, <<69882, 69887>>,
      <<69941, 69941>>, <<69960, 69967>>, <<70007, 70015>>, <<70112, 70112>>, <<70133, 70143>>,
      <<70162, 70162>>, <<70207, 70271>>, <<70279, 70279>>, <<70281, 70281>>, <<70286, 70286>>,
      <<70302, 70302>>, <<70314, 70319>>, <<70379, 70383>>, <<70394, 70399>>, <<70404, 70404>>,
      <<70413, 70414>>, <<70417, 70418>>, <<70441, 70441>>, <<70449, 70449>>, <<70452, 70452>>,
      <<70458, 70458>>, <<70469, 70470>>, <<70473, 70474>>, <<70478, 70479>>, <<70481, 70486>>,
      <<70488, 70492>>, <<70500, 70501>>, <<70509, 70511>>, <<70517, 70655>>, <<70748, 70748>>,
      <<70754, 70783>>, <<70856, 70863>>, <<70874, 71039>>, <<71094, 71095>>, <<71134, 71167>>,
      <<71237, 71247>>, <<71258, 71263>>, <<71277, 71295>>, <<71354, 71359>>, <<71370, 71423>>,
      <<71451, 71452>>, <<71468, 71471>>, <<71495, 71679>>, <<71740, 71839>>, <<71923, 71934>>,
      <<71943, 71944>>, <<71946, 71947>>, <<71956, 71956>>, <<71959, 71959>>, <<71990, 71990>>,
      <<71993, 71994>>, <<72007, 72015>>, <<72026, 72095>>, <<72104, 72105>>, <<72152, 72153>>,
      <<72165, 72191>>, <<72264, 72271>>, <<72355, 72367>>, <<72441, 72703>>, <<72713, 72713>>,
      <<72759, 72759>>, <<72774, 72783>>, <<72813, 72815>>, <<72848, 72849>>, <<72872, 72872>>,
      <<72887, 72959>>, <<72967, 72967>>, <<72970, 72970>>, <<73015, 73017>>, <<73019, 73019>>,
      <<73022, 73022>>, <<73032, 73039>>, <<73050, 73055>>, <<73062, 73062>>, <<73065, 73065>>,
      <<73103, 73103>>, <<73106, 73106>>, <<73113, 73119>>, <<73130, 73439>>, <<73465, 73647>>,
      <<73649, 73663>>, <<73714, 73726>>, <<74650, 74751>>, <<74863, 74863>>, <<74869, 74879>>,
      <<75076, 77711>>, <<77811, 77823>>, <<78895, 82943>>, <<83527, 92159>>, <<92729, 92735>>,
      <<92767, 92767>>, <<92778, 92781>>, <<92863, 92863>>, <<92874, 92879>>, <<92910, 92911>>,
      <<92918, 92927>>, <<92998, 93007>>, <<93018, 93018>>, <<93026, 93026>>, <<93048, 93052>>,
      <<93072, 93759>>, <<93851, 93951>>, <<94027, 94030>>, <<94088, 94094>>, <<94112, 94175>>,
      <<94181, 94191>>, <<94194, 94207>>, <<100344, 100351>>, <<101590, 101631>>, <<101641, 110575>>,
      <<110580, 110580>>, <<110588, 110588>>, <<110591, 110591>>, <<110883, 110927>>, <<110931, 110947>>,
      <<110952, 110959>>, <<111356, 113663>>, <<113771, 113775>>, <<113789, 113791>>, <<113801, 113807>>,
      <<113818, 113819>>, <<113824, 118527>>, <<118574, 118575>>, <<118599, 118607>>, <<118724, 118783>>,
      <<119030, 119039>>, <<119079, 119080>>, <<119155, 119162>>, <<119275, 119295>>, <<119366, 119519>>,
      <<119540, 119551>>, <<119639, 119647>>, <<119673, 119807>>, <<119893, 119893>>, <<119965, 119965>>,
      <<119968, 119969>>, <<119971, 119972>>, <<119975, 119976>>, <<119981, 119981>>, <<119994, 119994>>,
      <<119996, 119996>>, <<120004, 120004>>, <<120070, 120070>>, <<120075, 120076>>, <<120085, 120085>>,
      <<120093, 120093>>, <<120122, 120122>>, <<120127, 120127>>, <<120133, 120133>>, <<120135, 120137>>,
      <<120145, 120145>>, <<120486, 120487>>, <<120780, 120781>>, <<121484, 121498>>, <<121504, 121504>>,
      <<121520, 122623>>, <<122655, 122879>>, <<122887, 122887>>, <<122905, 122906>>, <<122914, 122914>>,
      <<122917, 122917>>, <<122923, 123135>>, <<123181, 123183>>, <<123198, 123199>>, <<123210, 123213>>,
      <<123216, 123535>>, <<123567, 123583>>, <<123642, 123646>>, <<123648, 124895>>, <<124903, 124903>>,
      <<124908, 124908>>, <<124911, 124911>>, <<124927, 124927>>, <<125125, 125126>>, <<125143, 125183>>,
      <<125260, 125263>>, <<125274, 125277>>, <<125280, 126064>>, <<126133, 126208>>, <<126270, 126463>>,
      <<126468, 126468>>, <<126496, 126496>>, <<126499, 126499>>, <<126501, 126502>>, <<126504, 126504>>,
      <<126515, 126515>>, <<126520, 126520>>, <<126522, 126522>>, <<126524, 126529>>, <<126531, 126534>>,
      <<126536, 126536>>, <<126538, 126538>>, <<126540, 126540>>, <<126544, 126544>>, <<126547, 126547>>,
      <<126549, 126550>>, <<126552, 126552>>, <<126554, 126554>>, <<126556, 126556>>, <<126558, 126558>>,
      <<126560, 126560>>, <<126563, 126563>>, <<126565, 126566>>, <<126571, 126571>>, <<126579, 126579>>,
      <<126584, 126584>>, <<126589, 126589>>, <<126591, 126591>>, <<126602, 126602>>, <<126620, 126624>>,
      <<126628, 126628>>, <<126634, 126634>>, <<126652, 126703>>, <<126706, 126975>>, <<127020, 127023>>,
      <<127124, 127135>>, <<127151, 127152>>, <<127168, 127168>>, <<127184, 127184>>, <<127222, 127231>>,
      <<127406, 127461>>, <<127491, 127503>>, <<127548, 127551>>, <<127561, 127567>>, <<127570, 127583>>,
      <<127590, 127743>>, <<128728, 128732>>, <<128749, 128751>>, <<128765, 128767>>, <<128884, 128895>>,
      <<128985, 128991>>, <<129004, 129007>>, <<129009, 129023>>, <<129036, 129039>>, <<129096, 129103>>,
      <<129114, 129119>>, <<129160, 129167>>, <<129198, 129199>>, <<129202, 129279>>, <<129620, 129631>>,
      <<129646, 129647>>, <<129653, 129655>>, <<129661, 129663>>, <<129671, 129679>>, <<129709, 129711>>,
      <<129723, 129727>>, <<129734, 129743>>, <<129754, 129759>>, <<129768, 129775>>, <<129783, 129791>>,
      <<129939, 129939>>, <<129995, 130031>>, <<130042, 131071>>, <<173792, 173823>>, <<177977, 177983>>,
      <<178206, 178207>>, <<183970, 183983>>, <<191457, 194559>>, <<195102, 196607>>, <<201547, 917759>>,
      <<918000, 1114111>>>>

\* str.isprintable() of a character.
IsPrintable(c) == IF c < 127 THEN c >= 32 ELSE ~InRanges(Unprintable, c)

\* The text repr() writes for a character of a str quoted with quote.
ReprChar(c, quote) ==
    CASE c = Ord["\\"] -> <<Ord["\\"], Ord["\\"]>>
      [] c = quote -> <<Ord["\\"], c>>
      [] c = 9 -> Codes("\\t")
      [] c = 10 -> Codes("\\n")
      [] c = 13 -> Codes("\\r")
      [] OTHER ->
            IF IsPrintable(c) THEN <<c>>
            ELSE IF c < 256
            THEN Codes("\\x") \o <<HexDigit(c \div 16), HexDigit(c % 16)>>
            ELSE IF c < 65536
            THEN Codes("\\u") \o [n \in 1..4 |-> HexDigit((c \div 16 ^ (4 - n)) % 16)]
            ELSE Codes("\\U") \o [n \in 1..8 |-> HexDigit((c \div 16 ^ (8 - n)) % 16)]

\* repr() of a str.
ReprStr(s) ==
    LET has(c) == \E i \in 1..Len(s) : s[i] = c
        quote == IF has(Ord["'"]) /\ ~has(Ord["\""]) THEN Ord["\""] ELSE Ord["'"]
    IN  <<quote>> \o Flat([i \in 1..Len(s) |-> ReprChar(s[i], quote)]) \o <<quote>>

\* repr(v), and the items of a list or a dict separated by ", ".
RECURSIVE Repr(_), ReprItems(_, _), ReprPairs(_, _)
Repr(v) ==
    CASE v.k = "none"  -> Codes("None")
      [] v.k = "bool"  -> IF v.b THEN Codes("True") ELSE Codes("False")
      [] v.k = "num"   -> Decimal(v.n)
      [] v.k = "float" -> v.lit
      [] v.k = "long"  -> v.lit
      [] v.k = "str"   -> ReprStr(v.s)
      [] v.k = "list"  -> Codes("[") \o ReprItems(v.xs, 1) \o Codes("]")
      [] v.k = "dict"  -> Codes("{") \o ReprPairs(v, 1) \o Codes("}")

ReprItems(xs, i) ==
    IF i > Len(xs) THEN <<>>
    ELSE (IF i > 1 THEN Codes(", ") ELSE <<>>) \o Repr(xs[i]) \o ReprItems(xs, i + 1)

ReprPairs(dict, i) ==
    IF i > Len(dict.keys) THEN <<>>
    ELSE (IF i > 1 THEN Codes(", ") ELSE <<>>)
         \o ReprStr(dict.keys[i]) \o Codes(": ") \o Repr(dict.d[dict.keys[i]])
         \o ReprPairs(dict, i + 1)

\* The text an f-string substitutes for a value ({language}): format(v),
\* which is the str itself and repr(v) for the other values.
Format(v) == IF v.k = "str" THEN v.s ELSE Repr(v)

\* The words of the option tables.
short == Codes("short")
medium == Codes("medium")
detailed == Codes("detailed")
neutral == Codes("neutral")
bullet == Codes("bullet")
technical == Codes("technical")

-----------------------------------------------------------------------------
(* build_summary_prompt                                                    *)

\* The dict literals of lines 51-60.
style_map ==
    (short :> Codes("2-3 concise sentences"))
    @@ (medium :> Codes("a tight single paragraph"))
    @@ (detailed :> Codes("a detailed yet concise multi-paragraph summary"))

tone_map ==
    (neutral :> Codes("neutral, factual prose"))
    @@ (bullet :> Codes("concise bullet points"))
    @@ (technical :> Codes("precise technical language"))

\* style = style_map.get(length, style_map["medium"])
style(length) ==
    IF length \in DOMAIN style_map THEN style_map[length] ELSE style_map[medium]

\* tone_desc = tone_map.get(tone, tone_map["neutral"])
tone_desc(tone) ==
    IF tone \in DOMAIN tone_map THEN tone_map[tone] ELSE tone_map[neutral]

\* The literal pieces of the f-strings of lines 63-68.
InLanguage == Codes(" in ")
SummaryHead ==
    Codes("You are a careful assistant that preserves facts, figures, and names. ")
    \o Codes("Summarize the following text as ")
SummaryUsing == Codes(" using ")
SummaryTail ==
    Codes(". ")
    \o Codes("Highlight critical numbers. If there is uncertainty, mention it briefly.\n\n")

\* A builder that writes the language clause whether or not a language is given.
lang_part_always(language) == InLanguage \o Format(language)

\* lang_part = f" in {language}" if language else ""
lang_part(language) ==
    IF Truthy(language) THEN InLanguage \o Format(language) ELSE <<>>

\* (options.get(key) or default).lower(): a str, or the AttributeError
\* Python raises when the supplied value is truthy and not a str.
LoweredOption(options, key, default) ==
    LET v == Or(Get(options, key), Str(default))
    IN  IF v.k = "str" THEN Str(LowerStr(v.s)) ELSE AttributeError(v, "lower")

\* build_summary_prompt(text, options): Str(prompt), or the exception raised.
build_summary_prompt(text, options) ==
    IF options.k # "dict" THEN AttributeError(options, "get")
    ELSE
    LET length == LoweredOption(options, "length", medium)
        tone == LoweredOption(options, "tone", neutral)
        language == Or(Get(options, "language"), Str(<<>>))
    IN  IF length.k = "raise" THEN length
        ELSE IF tone.k = "raise" THEN tone
        ELSE Str(SummaryHead \o style(length.s)
                 \o SummaryUsing \o tone_desc(tone.s) \o lang_part(language)
                 \o SummaryTail \o Strip(text))

-----------------------------------------------------------------------------
(* Configuration (module level of app.py)                                  *)

FALLBACK_MODEL == "gemini-1.5-flash"

\* The values the MODEL environment variable gives DEFAULT_MODEL: unset (the
\* built-in default), set to a name, which may be the fallback's own name,
\* or set to the empty string, which os.getenv returns as it is.
ModelNames == {"gemini-2.0-flash", "gemini-1.5-flash", ""}

\* genai.GenerativeModel(model_name): the handle, an object and so truthy
\* whatever the name.
GenerativeModel(model_name) == [k |-> "GenerativeModel", model_name |-> model_name]

\* Module-level initialisation of _genai_model (lines 30-42): the handle, or
\* None.  lib: the google.generativeai import succeeded; key: API_KEY;
\* defaultOk / fallbackOk: genai.configure and GenerativeModel(DEFAULT_MODEL),
\* resp. GenerativeModel(FALLBACK_MODEL), did not raise.
\* An initialisation whose except branch binds the preferred model again.
InitGenaiModel_retriesDefault(lib, key, default_model, defaultOk, fallbackOk) ==
    IF lib /\ key # ""
    THEN IF defaultOk \/ fallbackOk THEN GenerativeModel(default_model) ELSE None
    ELSE None

InitGenaiModel(lib, key, default_model, defaultOk, fallbackOk) ==
    IF lib /\ key # ""
    THEN IF defaultOk THEN GenerativeModel(default_model)
         ELSE IF fallbackOk THEN GenerativeModel(FALLBACK_MODEL)
         ELSE None
    ELSE None

-----------------------------------------------------------------------------
(* Provider clients                                                        *)

\* obj[key] of Python on a decoded JSON value, for a literal key: the item,
\* or the exception raised.
SubscriptKey(v, key) ==
    CASE v.k = "raise" -> v
      [] v.k = "dict" -> LET name == Codes(key)
                         IN  IF name \in DOMAIN v.d THEN v.d[name] ELSE Raise("KeyError")
      [] OTHER -> Raise("TypeError")

\* obj[0] of Python on a decoded JSON value.
SubscriptZero(v) ==
    CASE v.k = "raise" -> v
      [] v.k = "dict" -> Raise("KeyError")
      [] v.k = "list" -> IF Len(v.xs) > 0 THEN v.xs[1] ELSE Raise("IndexError")
      [] v.k = "str" -> IF v.s # <<>> THEN Str(<<v.s[1]>>) ELSE Raise("IndexError")
      [] OTHER -> Raise("TypeError")

\* v.strip(): the stripped str, or the exception.
StripValue(v) ==
    CASE v.k = "raise" -> v
      [] v.k = "str" -> Str(Strip(v.s))
      [] OTHER -> AttributeError(v, "strip")

\* A library tier that returns the text as it came, without trimming.
GenaiText_untrimmed(resp) ==
    IF resp.k = "raise" THEN None
    ELSE IF Truthy(resp.text) THEN resp.text
    ELSE IF Len(resp.candidates) > 0
         THEN LET cand == resp.candidates[1]
                  parts == IF cand.content.k = "none" THEN <<>> ELSE cand.content.parts
              IN  IF Len(parts) > 0 /\ parts[1].k = "text"
                  THEN Str(parts[1].text)
                  ELSE None
         ELSE None

\* What _genai_summarize returns once generate_content has answered with
\* resp (a response object, or the exception it raised).
GenaiText(resp) ==
    IF resp.k = "raise" THEN None
    ELSE IF Truthy(resp.text) THEN Str(Strip(resp.text.s))
    ELSE IF Len(resp.candidates) > 0
         THEN LET cand == resp.candidates[1]
                  parts == IF cand.content.k = "none" THEN <<>> ELSE cand.content.parts
              IN  IF Len(parts) > 0 /\ parts[1].k = "text"
                  THEN Str(Strip(parts[1].text))
                  ELSE None
         ELSE None

\* What image_context returns once generate_content has answered with resp.
VisionText(resp) ==
    IF resp.k = "raise" THEN None
    ELSE IF Truthy(resp.text) THEN Str(Strip(resp.text.s))
    ELSE None

\* A raw-network tier that reads the body whatever the status code.
HttpText_anyStatus(r) ==
    IF r.k = "raise" THEN None
    ELSE LET text == StripValue(SubscriptKey(SubscriptZero(SubscriptKey(SubscriptKey(
                         SubscriptZero(SubscriptKey(r.json, "candidates")),
                         "content"), "parts")), "text"))
         IN  IF text.k = "raise" THEN None ELSE text

\* What _http_generate returns once requests.post has answered with r (a
\* response, or the exception raised: connection error, timeout).
HttpText(r) ==
    IF r.k = "raise" THEN None
    ELSE IF r.status_code = 200
         THEN LET text == StripValue(SubscriptKey(SubscriptZero(SubscriptKey(SubscriptKey(
                              SubscriptZero(SubscriptKey(r.json, "candidates")),
                              "content"), "parts")), "text"))
              IN  IF text.k = "raise" THEN None ELSE text
         ELSE None

-----------------------------------------------------------------------------
(* encode_image                                                            *)

B64Alphabet ==
    Codes("ABCDEFGHIJKLMNOPQRSTUVWXYZabcdefghijklmnopqrstuvwxyz0123456789+/")

B64Char(n) == B64Alphabet[n + 1]

\* base64.b64encode(data).decode('utf-8'), data a sequence of bytes 0..255.
RECURSIVE b64encode(_)
b64encode(data) ==
    IF Len(data) = 0 THEN <<>>
    ELSE IF Len(data) = 1
    THEN <<B64Char(data[1] \div 4), B64Char((data[1] % 4) * 16), Ord["="], Ord["="]>>
    ELSE IF Len(data) = 2
    THEN <<B64Char(data[1] \div 4),
           B64Char((data[1] % 4) * 16 + data[2] \div 16),
           B64Char((data[2] % 16) * 4), Ord["="]>>
    ELSE <<B64Char(data[1] \div 4),
           B64Char((data[1] % 4) * 16 + data[2] \div 16),
           B64Char((data[2] % 16) * 4 + data[3] \div 64),
           B64Char(data[3] % 64)>>
         \o b64encode(SubSeq(data, 4, Len(data)))

\* encode_image(file_storage): the inline-data part (the raw bytes are the
\* file's own bytes field).
encode_image(file_storage) ==
    [data |-> b64encode(file_storage.bytes),
     mime_type |-> IF file_storage.mimetype # "" THEN file_storage.mimetype ELSE "image/png"]

-----------------------------------------------------------------------------
(* Worker threads                                                          *)

\* A thread that is not executing a request.
Idle ==
    [pc |-> "idle", req |-> None, options |-> None, prompt |-> None,
     summary |-> None, used_model |-> "", source |-> "",
     pending |-> {}, log |-> <<>>, failed |-> {},
     response |-> None]

\* The locals of a thread between two blocking calls: pc names the call it
\* is blocked in; pending holds the provider calls issued and not yet
\* returned; log records every provider call and return in program order.
CallEvent(tier, model, prompt, image) ==
    [ev |-> "call", tier |-> tier, model |-> model, prompt |-> prompt, image |-> image]
ReturnEvent(tier, text) ==
    [ev |-> "return", tier |-> tier, text |-> text]

\* Issue the blocking provider call of a tier.
IssueCall(s, tier, model, image) ==
    [s EXCEPT !.pc = tier,
              !.pending = @ \cup {tier},
              !.log = Append(@, CallEvent(tier, model, s.prompt, image))]

\* The blocking provider call of a tier has returned text.
ReturnCall(s, tier, text) ==
    [s EXCEPT !.pending = @ \ {tier},
              !.log = Append(@, ReturnEvent(tier, text))]

\* return jsonify(body), status
Respond(s, status, body) ==
    [s EXCEPT !.pc = "done", !.response = [status |-> status, body |-> body]]

\* Flask's answer to an exception that analyze does not catch.
Unhandled(s, e) ==
    Respond(s, 500, [error |-> Codes("Internal Server Error"), error_type |-> e.exc])

-----------------------------------------------------------------------------
(* summarize                                                               *)

\* Lines 119-125 and the try/except of analyze around summarize: the
\* RuntimeError becomes a 502, a result a 200.
FinishSummarize(s) ==
    IF ~Truthy(s.summary)
    THEN Respond(s, 502, [error |-> Codes("All summarization methods failed"),
                          error_type |-> "RuntimeError"])
    ELSE Respond(s, 200,
                 [summary |-> s.summary.s,
                  meta |-> [model |-> s.used_model, mode |-> "summarize",
                            source |-> s.source, options |-> s.options],
                  tokens_used |-> None])

\* Lines 115-118, once _http_generate(prompt, FALLBACK_MODEL) has returned.
AfterHttpFallback(s, summary) ==
    FinishSummarize(
        IF Truthy(summary)
        THEN [s EXCEPT !.summary = summary, !.used_model = FALLBACK_MODEL,
                       !.source = "http-fallback"]
        ELSE [s EXCEPT !.summary = summary])

\* Lines 114-115: the second raw-network attempt, if the summary is still
\* empty.  _http_generate returns None without a request when API_KEY is "".
TryHttpFallback(s) ==
    IF ~Truthy(s.summary)
    THEN IF API_KEY = ""
         THEN AfterHttpFallback(s, None)
         ELSE IssueCall(s, "http_fallback", FALLBACK_MODEL, None)
    ELSE FinishSummarize(s)

\* Lines 112-113, once _http_generate(prompt, DEFAULT_MODEL) has returned.
AfterHttpDefault(s, summary) ==
    TryHttpFallback([s EXCEPT !.summary = summary, !.source = "http"])

\* An orchestrator that asks the secondary model before the preferred one.
TryHttpDefault_fallbackFirst(s) ==
    IF ~Truthy(s.summary)
    THEN IF API_KEY = ""
         THEN AfterHttpDefault(s, None)
         ELSE IssueCall(s, "http_fallback", FALLBACK_MODEL, None)
    ELSE TryHttpFallback(s)

\* Lines 111-112: the first raw-network attempt, if the library gave nothing.
TryHttpDefault(s) ==
    IF ~Truthy(s.summary)
    THEN IF API_KEY = ""
         THEN AfterHttpDefault(s, None)
         ELSE IssueCall(s, "http_default", DEFAULT_MODEL, None)
    ELSE TryHttpFallback(s)

\* Lines 108-110, once _genai_summarize(prompt) has returned.
AfterGenai(s, summary) ==
    TryHttpDefault([s EXCEPT !.summary = summary, !.used_model = DEFAULT_MODEL,
                             !.source = "genai"])

\* An orchestrator that races the library call against the first network call.
TryGenai_racing(s) ==
    IF _genai_model = None
    THEN AfterGenai(s, None)
    ELSE IssueCall(IssueCall(s, "http_default", DEFAULT_MODEL, None),
                   "genai", _genai_model.model_name, None)

\* A library tier without the `if not _genai_model` guard: it calls
\* generate_content on whatever the handle holds.
TryGenai_noGuard(s) ==
    IssueCall(s, "genai", IF _genai_model = None THEN "" ELSE _genai_model.model_name, None)

\* Lines 72-76: _genai_summarize returns None at once without a handle,
\* otherwise calls generate_content(prompt).
TryGenai(s) ==
    IF _genai_model = None
    THEN AfterGenai(s, None)
    ELSE IssueCall(s, "genai", _genai_model.model_name, None)

\* summarize(text, options) up to its first blocking call, under the
\* try/except of analyze (lines 166-170).
summarize(s, text, options) ==
    LET prompt == build_summary_prompt(text, options)
    IN  IF prompt.k = "raise"
        THEN Respond(s, 502, [error |-> prompt.msg, error_type |-> prompt.exc])
        ELSE TryGenai([s EXCEPT !.prompt = prompt, !.options = options])

-----------------------------------------------------------------------------
(* float(): the double nearest to a decimal literal, and its repr()        *)

\* A natural number of any size is the sequence of its limbs in base 10000,
\* the least significant first, without zero limbs at its end; 0 is <<>>.
IsZero(n) == n = 0
Limb(a, i) == IF i <= Len(a) THEN a[i] ELSE 0

\* The limbs lo..hi of a * k + b * m with carry c into limb lo, followed by
\* the carry out of limb hi.
RECURSIVE LinRange(_, _, _, _, _, _, _)
LinJoin(a, k, b, m, mid, hi, low) ==
    SubSeq(low, 1, Len(low) - 1) \o LinRange(a, k, b, m, mid + 1, hi, low[Len(low)])
LinLimb(v) == <<v % 10000, v \div 10000>>
LinRange(a, k, b, m, lo, hi, c) ==
    IF lo = hi THEN LinLimb(Limb(a, lo) * k + Limb(b, lo) * m + c)
    ELSE LinJoin(a, k, b, m, (lo + hi) \div 2, hi,
                 LinRange(a, k, b, m, lo, (lo + hi) \div 2, c))

\* a * k + b * m for numbers a and b and integers k and m (|k|, |m| at most
\* 65536) that give a natural number.
LinCarry(r) ==
    LET limbs == SubSeq(r, 1, Len(r) - 1) \o <<r[Len(r)] % 10000, r[Len(r)] \div 10000>>
    IN  SubSeq(limbs, 1, RunStart(limbs, IsZero))
Lin(a, k, b, m) ==
    IF a = <<>> /\ b = <<>> THEN <<>>
    ELSE LinCarry(LinRange(a, k, b, m, 1, IF Len(a) > Len(b) THEN Len(a) ELSE Len(b), 0))

\* -1, 0, 1 for a < b, a = b, a > b.
Cmp(a, b) ==
    IF Len(a) # Len(b) THEN (IF Len(a) < Len(b) THEN -1 ELSE 1)
    ELSE IF a = b THEN 0
    ELSE IF a[RunStart([i \in 1..Len(a) |-> a[i] - b[i]], IsZero)]
            < b[RunStart([i \in 1..Len(a) |-> a[i] - b[i]], IsZero)] THEN -1
    ELSE 1

\* a * 10^n and a * 2^n; n, or 0 for a negative n.
Up(n) == IF n > 0 THEN n ELSE 0
Times10Pow(a, n) ==
    IF a = <<>> THEN <<>> ELSE [i \in 1..(n \div 4) |-> 0] \o Lin(a, 10 ^ (n % 4), <<>>, 0)
RECURSIVE Times2Pow(_, _)
Times2Pow(a, n) ==
    IF a = <<>> THEN <<>>
    ELSE IF n <= 16 THEN Lin(a, 2 ^ n, <<>>, 0)
    ELSE Times2Pow(Times2Pow(a, n \div 2), n - n \div 2)

\* The number written with the decimal digits ds (integers 0..9), and the
\* count of decimal digits of a number.
BigOf(ds) ==
    LET digit(i) == IF i >= 1 THEN ds[i] ELSE 0
        limbs == [j \in 1..((Len(ds) + 3) \div 4) |->
                    1000 * digit(Len(ds) - 4 * j + 1) + 100 * digit(Len(ds) - 4 * j + 2)
                    + 10 * digit(Len(ds) - 4 * j + 3) + digit(Len(ds) - 4 * j + 4)]
    IN  SubSeq(limbs, 1, RunStart(limbs, IsZero))
DecLen(a) ==
    IF a = <<>> THEN 0
    ELSE 4 * (Len(a) - 1) + (IF a[Len(a)] >= 1000 THEN 4 ELSE IF a[Len(a)] >= 100 THEN 3
                             ELSE IF a[Len(a)] >= 10 THEN 2 ELSE 1)

\* r \div s for a quotient in 0..9.
QuotientDigit(r, s) ==
    CHOOSE d \in 0..9 : Cmp(Lin(s, d, <<>>, 0), r) <= 0 /\ Cmp(r, Lin(s, d + 1, <<>>, 0)) < 0

\* The decimal digits hi..lo (the digits of 10^hi .. 10^lo) of r \div s, for
\* r \div s < 10^(hi + 1), and the remainder r % (s * 10^lo).
RECURSIVE Divide(_, _, _, _)
DivideDigit(r, t, d) == [q |-> <<d>>, r |-> Lin(r, 1, t, 0 - d)]
DivideJoin(q, low) == [q |-> q \o low.q, r |-> low.r]
DivideLow(s, mid, lo, high) == DivideJoin(high.q, Divide(high.r, s, mid, lo))
Divide(r, s, hi, lo) ==
    IF hi = lo THEN DivideDigit(r, Times10Pow(s, lo), QuotientDigit(r, Times10Pow(s, lo)))
    ELSE DivideLow(s, (hi + lo - 1) \div 2, lo, Divide(r, s, hi, (hi + lo + 1) \div 2))

\* 2^52, the least 53-bit significand.
TwoTo52 == Times2Pow(<<1>>, 52)

\* The double q * 2^e nearest to n / d * 2^e, ties to the even q, for
\* n / d < 2^53: e goes up by one when q rounds up to 2^53.
RoundHalfEven(d, e, quotient) ==
    LET q == BigOf(quotient.q)
        half == Cmp(Lin(quotient.r, 2, <<>>, 0), d)
        up == half > 0 \/ (half = 0 /\ quotient.q[Len(quotient.q)] % 2 = 1)
        rounded == IF up THEN Lin(q, 1, <<1>>, 1) ELSE q
    IN  IF rounded = Times2Pow(<<1>>, 53) THEN [q |-> TwoTo52, e |-> e + 1]
        ELSE [q |-> rounded, e |-> e]

\* The double nearest to n / d * 2^e, where n / d >= 2^52 or e = -1074: d is
\* doubled until n / d < 2^53.
RECURSIVE Scale(_, _, _)
Scale(n, d, e) ==
    IF Cmp(n, Times2Pow(d, 53)) >= 0 THEN Scale(n, Lin(d, 2, <<>>, 0), e + 1)
    ELSE RoundHalfEven(d, e, Divide(n, d, 15, 0))

\* The double nearest to d1.d2.. * 10^x for decimal digits ds = d1 d2 ..
\* (d1 not 0) and -325 < x < 309, as q * 2^e with 2^52 <= q < 2^53, or with
\* q < 2^52 and e = -1074 (a subnormal, or 0).  2^e0 is at most the value
\* of the last bit of the significand, since log2(10) > 3.3219.
FirstExponent(x) ==
    IF (x * 33219) \div 10000 - 53 < -1074 THEN -1074 ELSE (x * 33219) \div 10000 - 53
NearestFrom(ds, p, e0) ==
    Scale(Times2Pow(Times10Pow(BigOf(ds), Up(p)), Up(0 - e0)),
          Times2Pow(Times10Pow(<<1>>, Up(0 - p)), Up(e0)), e0)
Nearest(ds, x) == NearestFrom(ds, x - Len(ds) + 1, FirstExponent(x))

\* The digits of the shortest decimal that float() reads back as the double
\* v: the digits of r / s (0 < r / s < 1 once scaled by 10^k), which stop
\* when the decimal lies within mm below and mp above v (the halves of the
\* gaps to the next doubles, which read back as v themselves when its
\* significand is even) and then end with the digit nearest to v.  g holds
\* r, mp, mm and the digits out so far; Generate runs at most n digits on.
RECURSIVE Generate(_, _, _, _)
Generated(out) == [r |-> <<>>, mp |-> <<>>, mm |-> <<>>, out |-> out, done |-> TRUE]
Decide(r, s, mp, mm, even, out, d, high, low) ==
    IF high = 0 /\ even THEN Generated(Append(out, IF low > 0 THEN d + 1 ELSE d))
    ELSE IF low < 0 \/ (low = 0 /\ even)
    THEN Generated(Append(out, IF /\ high > 0
                                  /\ \/ Cmp(Lin(r, 2, <<>>, 0), s) > 0
                                     \/ Cmp(Lin(r, 2, <<>>, 0), s) = 0 /\ d % 2 = 1
                               THEN d + 1 ELSE d))
    ELSE IF high > 0 THEN Generated(Append(out, d + 1))
    ELSE [r |-> r, mp |-> mp, mm |-> mm, out |-> Append(out, d), done |-> FALSE]
GenerateRest(r, s, mp, mm, even, out, d) ==
    Decide(r, s, mp, mm, even, out, d, Cmp(Lin(r, 1, mp, 1), s), Cmp(r, mm))
GenerateDigit(r, s, mp, mm, even, out, d) ==
    GenerateRest(Lin(r, 1, s, 0 - d), s, mp, mm, even, out, d)
GenerateFrom(r, s, mp, mm, even, out) ==
    GenerateDigit(r, s, mp, mm, even, out, QuotientDigit(r, s))
Generate(g, s, even, n) ==
    IF g.done THEN g
    ELSE IF n = 1
    THEN GenerateFrom(Lin(g.r, 10, <<>>, 0), s, Lin(g.mp, 10, <<>>, 0), Lin(g.mm, 10, <<>>, 0),
                      even, g.out)
    ELSE Generate(Generate(g, s, even, n \div 2), s, even, n - n \div 2)

\* A double has at most 17 significant decimal digits.
MaxDigits == 17
Digits(r, s, mp, mm, even) ==
    Generate([r |-> r, mp |-> mp, mm |-> mm, out |-> <<>>, done |-> FALSE], s, even, MaxDigits).out

\* The decimal exponent k of the upper end high / s of the decimals that
\* read back as v: the least k with high / s below 10^k (at most 10^k when
\* the end itself does not read back as v).
Exponent(high, s, even) ==
    LET k == DecLen(high) - DecLen(s)
        c == Cmp(Times10Pow(high, Up(0 - k)), Times10Pow(s, Up(k)))
    IN  IF c < 0 \/ (c = 0 /\ ~even) THEN k ELSE k + 1

\* The digits d1 d2 .. and the exponent x of the shortest decimal
\* d1.d2.. * 10^x that reads back as v = r / s.
ShortestFor(r, s, mp, mm, even, k) ==
    [d |-> Digits(Times10Pow(r, Up(0 - k)), Times10Pow(s, Up(k)), Times10Pow(mp, Up(0 - k)),
                  Times10Pow(mm, Up(0 - k)), even),
     x |-> k - 1]
ShortestOf(r, s, mp, mm, even) ==
    ShortestFor(r, s, mp, mm, even, Exponent(Lin(r, 1, mp, 1), s, even))

\* The shortest decimal that reads back as the double q * 2^e = r / s.  The
\* double below is half as far (f = 2) as the one above when q is 2^52.
ShortestBy(q, e, f) ==
    ShortestOf(Times2Pow(Lin(q, 2 * f, <<>>, 0), Up(e)), Times2Pow(<<2 * f>>, Up(0 - e)),
               Times2Pow(<<f>>, Up(e)), Times2Pow(<<1>>, Up(e)), q[1] % 2 = 0)
Shortest(q, e) == ShortestBy(q, e, IF q = TwoTo52 /\ e > -1074 THEN 2 ELSE 1)

\* The digits d1 d2 .. of d1.d2.. * 10^x in fixed and in scientific notation.
FloatFixed(d, x) ==
    IF x >= 0
    THEN SubSeq(d \o [i \in 1..(x + 1 - Len(d)) |-> Digit(0)], 1, x + 1) \o Codes(".")
         \o (IF Len(d) > x + 1 THEN SubSeq(d, x + 2, Len(d)) ELSE Codes("0"))
    ELSE Codes("0.") \o [i \in 1..(0 - x - 1) |-> Digit(0)] \o d
FloatScientific(d, x) ==
    <<Head(d)>> \o (IF Len(d) > 1 THEN Codes(".") \o Tail(d) ELSE <<>>)
    \o (IF x < 0 THEN Codes("e-") ELSE Codes("e+"))
    \o (IF x \in -9..9 THEN Codes("0") ELSE <<>>)
    \o Decimal(IF x < 0 THEN 0 - x ELSE x)

\* repr() of the double v = q * 2^e: 0.0, inf from 2^1024 on, else its
\* shortest decimal, in fixed notation for -4 <= x < 16 and in scientific
\* notation otherwise.
DigitChars(d) == [i \in 1..Len(d) |-> Digit(d[i])]
DecimalRepr(dec) ==
    IF dec.x >= -4 /\ dec.x < 16 THEN FloatFixed(DigitChars(dec.d), dec.x)
    ELSE FloatScientific(DigitChars(dec.d), dec.x)
DoubleRepr(v) ==
    IF v.q = <<>> THEN Codes("0.0")
    ELSE IF v.e > 971 THEN Codes("inf")
    ELSE DecimalRepr(Shortest(v.q, v.e))

\* repr(float(lit)) for the significant digits d (characters, without zeros
\* at either end) and the decimal exponent x of d1.d2.. * 10^x; far is "+"
\* or "-" for an exponent beyond every double, else "".  Every double but 0
\* lies between 10^-324 and 10^309.
FloatText(sign, d, x, far) ==
    IF d = <<>> \/ far = "-" \/ (far = "" /\ x < -324) THEN sign \o Codes("0.0")
    ELSE IF far = "+" \/ x > 308 THEN sign \o Codes("inf")
    ELSE sign \o DoubleRepr(Nearest([i \in 1..Len(d) |-> d[i] - Digit(0)], x))

-----------------------------------------------------------------------------
(* json.loads                                                              *)

\* json.loads(raw) for a str raw: the decoded value, or the exception.
\* A scan gives [ok, v, i]: the value and the index after it, or ok = FALSE
\* and the exception.
NoScan == [ok |-> FALSE, exc |-> "JSONDecodeError"]
Scanned(v, i) == [ok |-> TRUE, v |-> v, i |-> i]

\* ord(s[i]), -1 past the end.
At(cs, i) == IF i \in 1..Len(cs) THEN cs[i] ELSE -1

\* s[i:].startswith(word)
StartsWith(cs, i, word) ==
    i + Len(word) - 1 <= Len(cs) /\ SubSeq(cs, i, i + Len(word) - 1) = Codes(word)

\* The end of the run of JSON whitespace at i, of the run of digits at i.
IsJsonSpace(c) == c \in {32, 9, 10, 13}
SkipWs(cs, i) == IF i > Len(cs) THEN i ELSE RunEnd(cs, i, IsJsonSpace)
DigitsEnd(cs, i) == IF i > Len(cs) THEN i ELSE RunEnd(cs, i, IsDigit)

\* int(ds) for at most nine digits.
RECURSIVE Natural(_)
Natural(ds) ==
    IF ds = <<>> THEN 0
    ELSE 10 * Natural(SubSeq(ds, 1, Len(ds) - 1)) + ds[Len(ds)] - Digit(0)

\* int(lit) for an optional minus sign and digits.
IntOf(lit) ==
    IF Len(lit) > (IF Head(lit) = Ord["-"] THEN 10 ELSE 9) THEN Long(lit)
    ELSE IF Head(lit) = Ord["-"] THEN Num(0 - Natural(Tail(lit)))
    ELSE Num(Natural(lit))

\* The parts of a float literal without its sign: the digits before the
\* point, the digits after it, and the exponent with its sign.
IsMantissa(c) == c \notin {Ord["."], Ord["e"], Ord["E"]}
IsNoExponent(c) == c \notin {Ord["e"], Ord["E"]}
IsZeroDigit(c) == c = Digit(0)
WholePart(body) == SubSeq(body, 1, RunEnd(body, 1, IsMantissa) - 1)
FractionPart(body) ==
    SubSeq(body, RunEnd(body, 1, IsMantissa) + 1, RunEnd(body, 1, IsNoExponent) - 1)
ExponentPart(body) == SubSeq(body, RunEnd(body, 1, IsNoExponent) + 1, Len(body))
ExponentDigits(exp) ==
    LET digits == IF exp # <<>> /\ Head(exp) \in {Ord["+"], Ord["-"]} THEN Tail(exp) ELSE exp
    IN  SubSeq(digits, RunEnd(digits, 1, IsZeroDigit), Len(digits))

\* The float written as the digits written (those before and after the
\* point) times ten to the exponent given by its sign ("-" or "+") and its
\* digits without leading zeros.  An exponent of more than nine digits is
\* 10^9 or more, and beyond every double unless the digits written are about
\* as many.
FloatOf(sign, whole, written, expSign, expDigits) ==
    LET significant == SubSeq(written, RunEnd(written, 1, IsZeroDigit), Len(written))
        beyond == Len(expDigits) > 9 /\ Len(written) < 10 ^ 9 - 400
    IN  FloatText(sign, SubSeq(significant, 1, RunStart(significant, IsZeroDigit)),
                  IF beyond THEN 0
                  ELSE Len(whole) - (Len(written) - Len(significant)) - 1
                       + (IF expSign = "-" THEN 0 - Natural(expDigits) ELSE Natural(expDigits)),
                  IF beyond THEN expSign ELSE "")

FloatOfBody(sign, body) ==
    FloatOf(sign, WholePart(body), WholePart(body) \o FractionPart(body),
            IF At(ExponentPart(body), 1) = Ord["-"] THEN "-" ELSE "+",
            ExponentDigits(ExponentPart(body)))

\* repr(float(lit)) for a JSON number lit with a fraction or an exponent.
FloatRepr(lit) ==
    FloatOfBody(IF Head(lit) = Ord["-"] THEN Codes("-") ELSE <<>>,
                IF Head(lit) = Ord["-"] THEN Tail(lit) ELSE lit)

\* The number at i: -?(0|[1-9]\d*)(\.\d+)?([eE][-+]?\d+)?; an int without
\* fraction and exponent, else a float.  int() refuses more than 4300
\* digits.
IntegerEnd(cs, i) == IF At(cs, i) = Digit(0) THEN i + 1 ELSE DigitsEnd(cs, i)
FractionEnd(cs, i) ==
    IF At(cs, i) = Ord["."] /\ DigitsEnd(cs, i + 1) > i + 1 THEN DigitsEnd(cs, i + 1) ELSE i
ExponentEnd(cs, i) ==
    IF At(cs, i) \notin {Ord["e"], Ord["E"]} THEN i
    ELSE IF At(cs, i + 1) \in {Ord["+"], Ord["-"]}
    THEN IF DigitsEnd(cs, i + 2) > i + 2 THEN DigitsEnd(cs, i + 2) ELSE i
    ELSE IF DigitsEnd(cs, i + 1) > i + 1 THEN DigitsEnd(cs, i + 1) ELSE i
NumberToken(cs, i, first, intEnd, end) ==
    IF intEnd = first THEN NoScan
    ELSE IF end > intEnd THEN Scanned(Float(FloatRepr(SubSeq(cs, i, end - 1))), end)
    ELSE IF intEnd - first > 4300 THEN [ok |-> FALSE, exc |-> "ValueError"]
    ELSE Scanned(IntOf(SubSeq(cs, i, intEnd - 1)), intEnd)
ScanNumberFrom(cs, i, first) ==
    NumberToken(cs, i, first, IntegerEnd(cs, first),
                ExponentEnd(cs, FractionEnd(cs, IntegerEnd(cs, first))))
ScanNumber(cs, i) == ScanNumberFrom(cs, i, IF At(cs, i) = Ord["-"] THEN i + 1 ELSE i)

\* The value of a hexadecimal digit, -1 for another character.
HexValue(c) ==
    IF IsDigit(c) THEN c - Ord["0"]
    ELSE IF c \in Ord["a"]..Ord["f"] THEN c - Ord["a"] + 10
    ELSE IF c \in Ord["A"]..Ord["F"] THEN c - Ord["A"] + 10
    ELSE -1

\* The code point of the four hexadecimal digits at i, -1 without them.
HexCode(cs, i) ==
    IF \A n \in 0..3 : HexValue(At(cs, i + n)) >= 0
    THEN 4096 * HexValue(At(cs, i)) + 256 * HexValue(At(cs, i + 1))
         + 16 * HexValue(At(cs, i + 2)) + HexValue(At(cs, i + 3))
    ELSE -1

\* The character a backslash escape stands for.
Unescaped(e) ==
    CASE e = Ord["b"] -> 8
      [] e = Ord["f"] -> 12
      [] e = Ord["n"] -> 10
      [] e = Ord["r"] -> 13
      [] e = Ord["t"] -> 9
      [] OTHER -> e

\* The value a number token or a constant at i stands for.
NumberValue(cs, i, number) ==
    IF number.ok \/ number.exc # "JSONDecodeError" THEN number
    ELSE IF StartsWith(cs, i, "NaN") THEN Scanned(Float(Codes("nan")), i + 3)
    ELSE IF StartsWith(cs, i, "Infinity") THEN Scanned(Float(Codes("inf")), i + 8)
    ELSE IF StartsWith(cs, i, "-Infinity") THEN Scanned(Float(Codes("-inf")), i + 9)
    ELSE NoScan

\* The decoder reads the document token by token.  Its state: mode is what
\* it reads next at index i ("value": a value; "string", "key": the rest of
\* a str, whose characters so far are acc; "after": what follows the value
\* v it has just read), stack holds the arrays and objects it is inside of
\* (the items read so far, and the key of the item being read), limit is
\* how many of them the interpreter lets it be inside of.
Frame(k) == [k |-> k, xs |-> <<>>, key |-> <<>>]
Fail(st, exc) == [st EXCEPT !.mode = "fail", !.exc = exc]
Completed(st, v, i) == [st EXCEPT !.mode = "after", !.v = v, !.i = i]
Begin(st, mode, i) == [st EXCEPT !.mode = mode, !.i = i, !.acc = <<>>]
Enter(st, k, mode, i) == [Begin(st, mode, i) EXCEPT !.stack = Append(@, Frame(k))]

\* The arrays and objects json.loads (line 181) decodes inside one another.
\* Each takes a level of the interpreter's recursion limit
\* (sys.getrecursionlimit() is 1000), which the decoder shares with its
\* callers: analyze, json.loads and the decoder's own frames take five, and
\* every frame beneath analyze one more (frames is their number: 1 when
\* analyze is called from module level, some dozens under a WSGI server).
\* One array or object more raises RecursionError.
MaxNesting(frames) == 995 - frames

\* A value starts at st.i with the character c; j is the index of the next
\* token.
NumberStep(st, number) ==
    IF number.ok THEN Completed(st, number.v, number.i) ELSE Fail(st, number.exc)
ValueStep(cs, st, c, j) ==
    IF c = Ord["\""] THEN Begin(st, "string", st.i + 1)
    ELSE IF c \in {Ord["{"], Ord["["]} /\ Len(st.stack) >= st.limit
    THEN Fail(st, "RecursionError")
    ELSE IF c = Ord["{"]
    THEN IF At(cs, j) = Ord["}"] THEN Completed(st, EmptyDict, j + 1)
         ELSE IF At(cs, j) = Ord["\""] THEN Enter(st, "dict", "key", j + 1)
         ELSE Fail(st, "JSONDecodeError")
    ELSE IF c = Ord["["]
    THEN IF At(cs, j) = Ord["]"] THEN Completed(st, List(<<>>), j + 1)
         ELSE Enter(st, "list", "value", j)
    ELSE IF StartsWith(cs, st.i, "null") THEN Completed(st, None, st.i + 4)
    ELSE IF StartsWith(cs, st.i, "true") THEN Completed(st, Bool(TRUE), st.i + 4)
    ELSE IF StartsWith(cs, st.i, "false") THEN Completed(st, Bool(FALSE), st.i + 5)
    ELSE NumberStep(st, NumberValue(cs, st.i, ScanNumber(cs, st.i)))

\* A backslash at i followed by e: the escaped character joins acc.  A
\* \uXXXX escape (code) of a high surrogate followed by one (next) of a low
\* surrogate is the one character of the pair.
EscapeStep(cs, st, i, e, code, next) ==
    IF e \in {Ord["\""], Ord["\\"], Ord["/"], Ord["b"], Ord["f"], Ord["n"], Ord["r"], Ord["t"]}
    THEN [st EXCEPT !.i = i + 2, !.acc = Append(@, Unescaped(e))]
    ELSE IF e # Ord["u"] \/ code < 0 THEN Fail(st, "JSONDecodeError")
    ELSE IF code \in 55296..56319 /\ StartsWith(cs, i + 6, "\\u") /\ next \in 56320..57343
    THEN [st EXCEPT !.i = i + 12,
                    !.acc = Append(@, 65536 + 1024 * (code - 55296) + next - 56320)]
    ELSE [st EXCEPT !.i = i + 6, !.acc = Append(@, code)]

\* The closing quote of a key has been read: a colon and a value follow.
KeyEnd(cs, st, key, colon) ==
    IF At(cs, colon) = Ord[":"]
    THEN [st EXCEPT !.mode = "value", !.i = SkipWs(cs, colon + 1),
                    !.stack[Len(st.stack)].key = key]
    ELSE Fail(st, "JSONDecodeError")

\* Inside a str at st.i; end is the index of the first character that is a
\* quote, a backslash or a control character.
IsPlain(c) == c >= 32 /\ c \notin {Ord["\""], Ord["\\"]}
StringStep(cs, st, end, acc) ==
    CASE end > Len(cs) -> Fail(st, "JSONDecodeError")
      [] cs[end] = Ord["\""] ->
            IF st.mode = "string" THEN Completed(st, Str(acc), end + 1)
            ELSE KeyEnd(cs, st, acc, SkipWs(cs, end + 1))
      [] cs[end] = Ord["\\"] ->
            EscapeStep(cs, [st EXCEPT !.acc = acc], end, At(cs, end + 1),
                       HexCode(cs, end + 2), HexCode(cs, end + 8))
      [] OTHER -> Fail(st, "JSONDecodeError")

\* The value st.v of the array or object top has been read; items are its
\* items with that value, j is the index of the next token.
AfterItem(cs, st, top, items, j, next) ==
    IF At(cs, j) = (IF top.k = "list" THEN Ord["]"] ELSE Ord["}"])
    THEN [st EXCEPT !.stack = SubSeq(@, 1, Len(@) - 1), !.i = j + 1,
                    !.v = IF top.k = "list" THEN List(items) ELSE Dict(items)]
    ELSE IF At(cs, j) # Ord[","] THEN Fail(st, "JSONDecodeError")
    ELSE IF top.k = "list"
    THEN [st EXCEPT !.mode = "value", !.i = next, !.stack[Len(st.stack)].xs = items]
    ELSE IF At(cs, next) = Ord["\""]
    THEN [Begin(st, "key", next + 1) EXCEPT !.stack[Len(st.stack)].xs = items]
    ELSE Fail(st, "JSONDecodeError")
AfterValue(cs, st, top, j) ==
    AfterItem(cs, st, top,
              IF top.k = "list" THEN Append(top.xs, st.v) ELSE Append(top.xs, <<top.key, st.v>>),
              j, SkipWs(cs, j + 1))

\* One token.  The document is one value between whitespace.
Step(cs, st) ==
    CASE st.mode = "value" -> ValueStep(cs, st, At(cs, st.i), SkipWs(cs, st.i + 1))
      [] st.mode \in {"string", "key"} ->
            IF st.i > Len(cs) THEN Fail(st, "JSONDecodeError")
            ELSE StringStep(cs, st, RunEnd(cs, st.i, IsPlain),
                            st.acc \o SubSeq(cs, st.i, RunEnd(cs, st.i, IsPlain) - 1))
      [] st.stack # <<>> -> AfterValue(cs, st, st.stack[Len(st.stack)], SkipWs(cs, st.i))
      [] SkipWs(cs, st.i) = Len(cs) + 1 -> [st EXCEPT !.mode = "done"]
      [] OTHER -> Fail(st, "JSONDecodeError")

\* At most n tokens on from st.
RECURSIVE Run(_, _, _)
Run(cs, st, n) ==
    IF st.mode \in {"done", "fail"} THEN st
    ELSE IF n = 1 THEN Step(cs, st)
    ELSE Run(cs, Run(cs, st, n \div 2), n - n \div 2)

\* json.loads(raw), called by analyze with frames frames beneath it.  A str
\* that starts with the byte order mark U+FEFF is refused.
Document(st) == IF st.mode = "done" THEN st.v ELSE Raise(st.exc)
json_loads(raw, frames) ==
    IF At(raw, 1) = 65279 THEN Raise("JSONDecodeError")
    ELSE Document(Run(raw, [mode |-> "value", i |-> SkipWs(raw, 1), stack |-> <<>>,
                            acc |-> <<>>, v |-> None, exc |-> "JSONDecodeError",
                            limit |-> MaxNesting(frames)],
                      Len(raw) + 1))

-----------------------------------------------------------------------------
(* image_context and the image branch of analyze                           *)

\* The literal pieces of lines 194-199.
ImageHead ==
    Codes("You are an assistant describing the provided image. ")
    \o Codes("Identify notable objects, text, and context succinctly.")
RespondIn == Codes(" Respond in ")
FullStop == Codes(".")

\* Lines 184 and 194-199: base_prompt for the decoded options, or the
\* exception options.get raises when the decoded JSON is not an object.
base_prompt(options) ==
    IF options.k # "dict" THEN AttributeError(options, "get")
    ELSE LET language == Or(Get(options, "language"), Str(<<>>))
         IN  Str(ImageHead
                 \o (IF Truthy(language)
                     THEN RespondIn \o Format(language) \o FullStop
                     ELSE <<>>))

\* Lines 187-192: size_str from what PIL decodes of the bytes (dims is None
\* when Image.open raises).
size_str(file_storage) ==
    IF file_storage.dims.k = "none" THEN Codes("unknown")
    ELSE Format(Num(file_storage.dims.w)) \o Codes("x") \o Format(Num(file_storage.dims.h))

\* Lines 202-213, once image_context has returned analysis.
AfterVision(s, analysis) ==
    Respond(s, 200,
            [analysis |-> IF ~Truthy(analysis)
                          THEN Codes("(Vision model unavailable or failed. No analysis produced.)")
                          ELSE analysis.s,
             tokens_used |-> None,
             meta |-> [model |-> DEFAULT_MODEL, mode |-> "image_context",
                       image_size |-> size_str(s.req.image), options |-> s.options]])

\* An image_context that falls back to the raw-network client.
image_context_httpFallback(s, prompt, image_part) ==
    IF _genai_model # None
    THEN IssueCall([s EXCEPT !.prompt = prompt], "vision", _genai_model.model_name, image_part)
    ELSE IF API_KEY # ""
    THEN IssueCall([s EXCEPT !.prompt = prompt], "http_default", DEFAULT_MODEL, None)
    ELSE AfterVision([s EXCEPT !.prompt = prompt], None)

\* image_context(prompt, image_part), lines 135-145: only the library is
\* tried; without a handle it returns None at once.
image_context(s, prompt, image_part) ==
    IF _genai_model # None
    THEN IssueCall([s EXCEPT !.prompt = prompt], "vision", _genai_model.model_name, image_part)
    ELSE AfterVision([s EXCEPT !.prompt = prompt], None)

\* What analyze runs on: the number of frames on the stack beneath it, and
\* whether Pillow is installed, so that `from PIL import Image` succeeds.
Host(frames, pillow) == [frames |-> frames, pillow |-> pillow]

\* Lines 173-215: multipart / form request.  The import of line 187 stands
\* outside every try.
analyze_form(s, rq, host) ==
    IF rq.mode = "image_context"
    THEN IF rq.image.k = "none"
         THEN Respond(s, 400, [error |-> Codes("Image file missing")])
         ELSE LET options_raw == Or(rq.options, Str(Codes("{}")))
                  loaded == json_loads(options_raw.s, host.frames)
                  options == IF loaded.k = "raise" THEN EmptyDict ELSE loaded
                  prompt == base_prompt(options)
              IN  IF prompt.k = "raise"
                  THEN Unhandled(s, prompt)
                  ELSE IF ~host.pillow
                  THEN Unhandled(s, [k |-> "raise", exc |-> "ModuleNotFoundError",
                                     msg |-> Codes("No module named 'PIL'")])
                  ELSE image_context([s EXCEPT !.options = options], prompt,
                                     encode_image(rq.image))
    ELSE Respond(s, 400, [error |-> Codes("Unsupported request format or mode")])

-----------------------------------------------------------------------------
(* The JSON branch of analyze                                              *)

summarize_mode == Codes("summarize")

\* Lines 157-170.
analyze_json(s, rq) ==
    LET data == Or(rq.data, EmptyDict)
    IN  IF data.k # "dict" THEN Unhandled(s, AttributeError(data, "get"))
        ELSE
        LET mode == Or(Get(data, "mode"), Str(summarize_mode))
            text == StripValue(Or(Get(data, "text"), Str(<<>>)))
            options == Or(Get(data, "options"), EmptyDict)
        IN  IF ~EqStr(mode, summarize_mode)
            THEN Respond(s, 400, [error |-> Codes("Unsupported JSON mode")])
            ELSE IF text.k = "raise" THEN Unhandled(s, text)
            ELSE IF ~Truthy(text)
            THEN Respond(s, 400, [error |-> Codes("No text provided")])
            ELSE summarize(s, text.s, options)

\* analyze(), up to its first blocking provider call or its response.
analyze(s, rq, host) ==
    IF rq.k = "json" THEN analyze_json(s, rq) ELSE analyze_form(s, rq, host)

-----------------------------------------------------------------------------
(* Inputs: the requests clients send and the answers providers give        *)

French == Codes("French")

JsonReq(data) == [k |-> "json", data |-> data]
FormReq(mode, image, options) == [k |-> "form", mode |-> mode, image |-> image, options |-> options]
File(bytes, mimetype, dims) == [k |-> "file", bytes |-> bytes, mimetype |-> mimetype, dims |-> dims]

JsonRequests ==
    { JsonReq(Dict(<<<<Codes("text"), Str(Codes("C"))>>>>)),
      JsonReq(Dict(<<<<Codes("mode"), Str(summarize_mode)>>,
                     <<Codes("text"), Str(<<32, 5760, 67, 10>>)>>,
                     <<Codes("options"), Dict(<<<<Codes("length"), Str(Codes("SHORT"))>>,
                                               <<Codes("tone"), Str(bullet)>>,
                                               <<Codes("language"), Str(French)>>>>)>>>>)),
      JsonReq(Dict(<<<<Codes("text"), Str(Codes("C"))>>,
                     <<Codes("options"), Dict(<<<<Codes("length"), Num(5)>>>>)>>>>)),
      JsonReq(Dict(<<<<Codes("text"), Str(Codes("C"))>>, <<Codes("options"), List(<<Num(1)>>)>>>>)),
      JsonReq(Dict(<<<<Codes("text"), Str(Codes(" \n"))>>,
                     <<Codes("options"), Dict(<<<<Codes("tone"), Str(bullet)>>>>)>>>>)),
      JsonReq(Dict(<<<<Codes("text"), Str(<<160, 12, 5760>>)>>>>)),
      JsonReq(Dict(<<<<Codes("text"), Str(Codes("C"))>>,
                     <<Codes("options"), Dict(<<<<Codes("language"), Num(10)>>>>)>>>>)),
      JsonReq(Dict(<<<<Codes("text"), Num(5)>>>>)),
      JsonReq(Dict(<<<<Codes("mode"), Str(Codes("x"))>>, <<Codes("text"), Str(Codes("C"))>>>>)),
      JsonReq(List(<<Num(1)>>)),
      JsonReq(None) }

FormRequests ==
    { FormReq("image_context", File(<<137, 80, 78, 71>>, "image/jpeg", [k |-> "dims", w |-> 2, h |-> 1]), None),
      FormReq("image_context", File(<<>>, "", None), Str(Codes("{\"language\": \"French\"}"))),
      FormReq("image_context", File(<<255>>, "image/png", None),
              Str(Codes("{\"length\": \"short\", \"tone\": \"bullet\"}"))),
      FormReq("image_context", File(<<1, 2>>, "image/png", [k |-> "dims", w |-> 640, h |-> 480]),
              Str(Codes("{\"language\":\"\\u0391\"}"))),
      FormReq("image_context", File(<<1, 2>>, "image/png", None), Str(Codes("{\"language\": 10}"))),
      FormReq("image_context", File(<<1, 2>>, "image/png", None), Str(Codes("{\"language\": 1e-400}"))),
      FormReq("image_context", File(<<1, 2>>, "image/png", None), Str(Codes("\"abc\""))),
      FormReq("image_context", File(<<1, 2>>, "image/png", None), Str(Codes("0"))),
      FormReq("image_context", File(<<1, 2>>, "image/png", None), Str(Codes("{not json"))),
      FormReq("image_context", File(<<1, 2>>, "image/png", None), Str(Codes("[1]"))),
      FormReq("image_context", File(<<1, 2>>, "image/png", None), Str(Codes("null"))),
      FormReq("image_context", None, None),
      FormReq("", None, None) }

Requests == JsonRequests \cup FormRequests

\* The hosts: a script that calls analyze from one function, and a WSGI
\* server with and without Pillow.
Hosts == {Host(2, TRUE), Host(30, TRUE), Host(30, FALSE)}

Part(text) == [k |-> "text", text |-> text]
Blob == [k |-> "inline_data"]
Content(parts) == [k |-> "content", parts |-> parts]
Candidate(content) == [content |-> content]
Response(text, candidates) == [k |-> "resp", text |-> text, candidates |-> candidates]

\* What generate_content can answer: an exception, or a response object.
GenaiResponses ==
    { Raise("Exception"),
      Response(Str(<<5760, 88, 10>>), <<>>),
      Response(Str(Codes("Y")), <<>>),
      Response(Str(Codes(" ")), <<>>),
      Response(Str(<<32, 12, 8195>>), <<>>),
      Response(None, <<>>),
      Response(None, <<Candidate(Content(<<Part(Codes("Y "))>>))>>),
      Response(Str(<<>>), <<Candidate(Content(<<Part(<<>>)>>))>>),
      Response(None, <<Candidate(Content(<<Blob>>))>>),
      Response(None, <<Candidate(None)>>) }

HttpResponse(status_code, json) == [k |-> "resp", status_code |-> status_code, json |-> json]
Body(text) ==
    LET part == Dict(<<<<Codes("text"), text>>>>)
        content == Dict(<<<<Codes("parts"), List(<<part>>)>>>>)
        candidate == Dict(<<<<Codes("content"), content>>>>)
    IN  Dict(<<<<Codes("candidates"), List(<<candidate>>)>>>>)

\* What requests.post can answer: an exception (connection error, timeout),
\* or a response with a status and a body (json is what r.json() gives).
HttpResponses ==
    { Raise("Timeout"),
      HttpResponse(500, None),
      HttpResponse(200, Body(Str(<<5760, 88>>))),
      HttpResponse(200, Body(Str(Codes("Z")))),
      HttpResponse(200, Body(Str(Codes("\n")))),
      HttpResponse(200, Body(Str(<<133, 160, 12288>>))),
      HttpResponse(200, Body(Num(5))),
      HttpResponse(200, Dict(<<<<Codes("candidates"), List(<<>>)>>>>)),
      HttpResponse(200, Dict(<<<<Codes("error"), Str(Codes("e"))>>>>)),
      HttpResponse(200, Raise("JSONDecodeError")),
      HttpResponse(404, Body(Str(Codes("X")))) }

\* The answers of generate_content that are failures of the attempt: an
\* exception, or a response with neither text nor a first candidate whose
\* first part is text.
FailedLibraryAnswers ==
    { Raise("Exception"),
      Response(None, <<>>),
      Response(None, <<Candidate(Content(<<Blob>>))>>),
      Response(None, <<Candidate(None)>>) }

\* The answers of requests.post that are failures of the attempt: a
\* connection error or timeout, a status outside 2xx, a body that is not
\* JSON, or a body without a first candidate with a first text part.
FailedNetworkAnswers ==
    { Raise("Timeout"),
      HttpResponse(500, None),
      HttpResponse(404, Body(Str(Codes("X")))),
      HttpResponse(200, Body(Num(5))),
      HttpResponse(200, Dict(<<<<Codes("candidates"), List(<<>>)>>>>)),
      HttpResponse(200, Dict(<<<<Codes("error"), Str(Codes("e"))>>>>)),
      HttpResponse(200, Raise("JSONDecodeError")) }

\* Remember that the answer a tier got was a failure of the attempt.
NoteAnswer(s, tier, failure) ==
    [s EXCEPT !.failed = IF failure THEN @ \cup {tier} ELSE @]

\* No direct use of the prompt builders.
NoBuild == [text |-> <<>>, options |-> None, summary_prompt |-> None, image_prompt |-> None]

-----------------------------------------------------------------------------
(* Actions                                                                 *)

\* The module has been imported: lines 23-43 have run.
Loaded == [pc |-> "ready"]

Init ==
    \E lib \in BOOLEAN, key \in {"", "key"}, model \in ModelNames,
       defaultOk \in BOOLEAN, fallbackOk \in BOOLEAN :
        /\ API_KEY = key
        /\ DEFAULT_MODEL = model
        /\ _genai_model = InitGenaiModel(lib, key, model, defaultOk, fallbackOk)
        /\ th = [t \in Threads |-> Idle]
        /\ pb = NoBuild
        /\ boot = Loaded

\* A thread takes a request and runs analyze up to the first provider call.
Receive(t, rq, host) ==
    /\ th[t].pc = "idle"
    /\ th' = [th EXCEPT ![t] = analyze([Idle EXCEPT !.req = rq], rq, host)]
    /\ UNCHANGED <<API_KEY, DEFAULT_MODEL, _genai_model, pb, boot>>

\* generate_content(prompt) answers; summarize runs on.
GenaiReturn(t, resp) ==
    /\ th[t].pc = "genai"
    /\ th' = [th EXCEPT ![t] = AfterGenai(ReturnCall(NoteAnswer(@, "genai", resp \in FailedLibraryAnswers),
                                              "genai", GenaiText(resp)), GenaiText(resp))]
    /\ UNCHANGED <<API_KEY, DEFAULT_MODEL, _genai_model, pb, boot>>

\* requests.post for DEFAULT_MODEL answers; summarize runs on.
HttpDefaultReturn(t, r) ==
    /\ th[t].pc = "http_default"
    /\ th' = [th EXCEPT ![t] = AfterHttpDefault(ReturnCall(NoteAnswer(@, "http_default", r \in FailedNetworkAnswers),
                                              "http_default", HttpText(r)), HttpText(r))]
    /\ UNCHANGED <<API_KEY, DEFAULT_MODEL, _genai_model, pb, boot>>

\* requests.post for FALLBACK_MODEL answers; summarize finishes.
HttpFallbackReturn(t, r) ==
    /\ th[t].pc = "http_fallback"
    /\ th' = [th EXCEPT ![t] = AfterHttpFallback(ReturnCall(NoteAnswer(@, "http_fallback", r \in FailedNetworkAnswers),
                                              "http_fallback", HttpText(r)), HttpText(r))]
    /\ UNCHANGED <<API_KEY, DEFAULT_MODEL, _genai_model, pb, boot>>

\* generate_content([prompt, image_part]) answers; analyze finishes.
VisionReturn(t, resp) ==
    /\ th[t].pc = "vision"
    /\ th' = [th EXCEPT ![t] = AfterVision(ReturnCall(@, "vision", VisionText(resp)), VisionText(resp))]
    /\ UNCHANGED <<API_KEY, DEFAULT_MODEL, _genai_model, pb, boot>>

\* The response is sent; the thread is free for the next request.
Complete(t) ==
    /\ th[t].pc = "done"
    /\ th' = [th EXCEPT ![t] = Idle]
    /\ UNCHANGED <<API_KEY, DEFAULT_MODEL, _genai_model, pb, boot>>

Next ==
    \E t \in Threads :
        \/ \E rq \in Requests, host \in Hosts : Receive(t, rq, host)
        \/ \E resp \in GenaiResponses : GenaiReturn(t, resp)
        \/ \E r \in HttpResponses : HttpDefaultReturn(t, r)
        \/ \E r \in HttpResponses : HttpFallbackReturn(t, r)
        \/ \E resp \in GenaiResponses : VisionReturn(t, resp)
        \/ Complete(t)

Spec == Init /\ [][Next]_vars

TypeOK ==
    /\ API_KEY \in {"", "key"}
    /\ DEFAULT_MODEL \in ModelNames
    /\ _genai_model \in {None} \cup {GenerativeModel(m) : m \in ModelNames}
    /\ \A t \in Threads :
        th[t].pc \in {"idle", "genai", "http_default", "http_fallback", "vision", "done"}

-----------------------------------------------------------------------------
(* The prompt builders on their own                                        *)

\* Longest content text and longest option word drawn.
MaxLen == 2

RECURSIVE SeqsUpTo(_, _)
SeqsUpTo(S, n) ==
    IF n = 0 THEN {<<>>}
    ELSE LET shorter == SeqsUpTo(S, n - 1)
         IN  shorter \cup {Append(q, c) : q \in {x \in shorter : Len(x) = n - 1}, c \in S}

Texts == SeqsUpTo({32, 67, 5760}, MaxLen)

\* Values a client can send for an option; Absent stands for a missing key.
Absent == [k |-> "absent"]
Words == {Str(w) : w \in SeqsUpTo({Ord["x"]}, MaxLen)}
LengthValues ==
    {Absent, None, Num(0), Num(5), List(<<Num(1)>>),
     Str(short), Str(medium), Str(detailed), Str(bullet),
     Str(Codes("SHORT")), Str(Codes("Detailed")), Str(Codes("short "))} \cup Words
ToneValues ==
    {Absent, None, Num(5), Str(neutral), Str(bullet), Str(technical), Str(short),
     Str(Codes("Bullet"))} \cup Words
LanguageValues ==
    {Absent, None, Num(0), Num(5), Num(10), Float(Codes("0.0")), List(<<Str(<<5760>>)>>),
     Str(French), Str(<<913>>), Str(Codes(" "))} \cup Words

\* The options dict holding the supplied values.
OptionsOf(length, tone, language) ==
    LET supplied(item) == item[2] # Absent
    IN  Dict(SelectSeq(<<<<Codes("length"), length>>, <<Codes("tone"), tone>>,
                         <<Codes("language"), language>>>>, supplied))

InitPrompt ==
    /\ API_KEY = ""
    /\ DEFAULT_MODEL = "gemini-2.0-flash"
    /\ _genai_model = None
    /\ th = [t \in Threads |-> Idle]
    /\ boot = Loaded
    /\ \E text \in Texts, length \in LengthValues, tone \in ToneValues,
          language \in LanguageValues :
            pb = [NoBuild EXCEPT !.text = text, !.options = OptionsOf(length, tone, language)]

\* build_summary_prompt(text, options) is called.
BuildSummaryPrompt ==
    /\ pb.options # None
    /\ pb.summary_prompt = None
    /\ pb' = [pb EXCEPT !.summary_prompt = build_summary_prompt(pb.text, pb.options)]
    /\ UNCHANGED <<API_KEY, DEFAULT_MODEL, _genai_model, th, boot>>

\* The image prompt of analyze is built for the options.
BuildImagePrompt ==
    /\ pb.options # None
    /\ pb.image_prompt = None
    /\ pb' = [pb EXCEPT !.image_prompt = base_prompt(pb.options)]
    /\ UNCHANGED <<API_KEY, DEFAULT_MODEL, _genai_model, th, boot>>

NextPrompt == BuildSummaryPrompt \/ BuildImagePrompt

SpecPrompt == InitPrompt /\ [][NextPrompt]_vars

-----------------------------------------------------------------------------
(* Properties of the orchestration                                         *)

Range(q) == {q[i] : i \in 1..Len(q)}
IsPrefix(a, b) == Len(a) <= Len(b) /\ SubSeq(b, 1, Len(a)) = a
IsCall(e) == e.ev = "call"
IsReturn(e) == e.ev = "return"
CallsOf(s) == SelectSeq(s.log, IsCall)
ReturnsOf(s) == SelectSeq(s.log, IsReturn)
TiersOf(events) == [i \in 1..Len(events) |-> events[i].tier]

\* The tiers of summarize that issue a provider call in this process, in
\* the order managed-library, raw-network preferred, raw-network secondary.
EnabledTiers ==
    (IF _genai_model # None THEN <<"genai">> ELSE <<>>)
    \o (IF API_KEY # "" THEN <<"http_default", "http_fallback">> ELSE <<>>)

\* The model a tier of summarize addresses.
ModelOfTier(tier) ==
    CASE tier = "genai" -> _genai_model.model_name
      [] tier = "http_default" -> DEFAULT_MODEL
      [] tier = "http_fallback" -> FALLBACK_MODEL

\* The source tag of a tier.
TagOfTier(tier) ==
    CASE tier = "genai" -> "genai"
      [] tier = "http_default" -> "http"
      [] tier = "http_fallback" -> "http-fallback"

Succeeded(s) == s.pc = "done" /\ s.response.status = 200
Exhausted(s) ==
    /\ s.req.k = "json" /\ s.pc = "done" /\ s.prompt.k = "str"
    /\ \A e \in Range(ReturnsOf(s)) : ~Truthy(e.text)

\* C1: a summarization request calls the tiers in the order managed-library,
\* raw-network preferred model, raw-network secondary model, whatever its
\* text and options; the summary returned is the text of the first tier that
\* returned non-empty text, and no call follows that return.
C1_FixedOrderFirstSuccess ==
    \A t \in Threads :
        LET s == th[t]
            calls == CallsOf(s)
        IN  s.req.k = "json" =>
            /\ IsPrefix(TiersOf(calls), EnabledTiers)
            /\ \A i \in 1..Len(calls) :
                /\ calls[i].model = ModelOfTier(calls[i].tier)
                /\ calls[i].prompt = s.prompt
            /\ \A i \in 1..Len(s.log) :
                (IsReturn(s.log[i]) /\ Truthy(s.log[i].text)) =>
                    /\ i = Len(s.log)
                    /\ Succeeded(s)
                    /\ s.response.body.summary = s.log[i].text.s
            /\ Succeeded(s) =>
                /\ Len(s.log) > 0
                /\ IsReturn(s.log[Len(s.log)])
                /\ Truthy(s.log[Len(s.log)].text)
            /\ (s.pc = "done" /\ s.prompt.k = "str" /\ ~Succeeded(s)) =>
                TiersOf(calls) = EnabledTiers

C1_Witness ==
    \E t \in Threads :
        /\ Succeeded(th[t])
        /\ th[t].req.k = "json"
        /\ Codes("language") \in DOMAIN th[t].options.d
        /\ TiersOf(CallsOf(th[t])) = <<"genai", "http_default", "http_fallback">>
        /\ th[t].response.body.summary = Codes("X")

\* Whether a str holds another as a substring.
Occurs(sub, s) == \E i \in 0..(Len(s) - Len(sub)) : SubSeq(s, i + 1, i + Len(sub)) = sub

\* Whether a failure body names a model.
Mentions(body, model) ==
    \/ "error" \in DOMAIN body /\ Occurs(Codes(model), body.error)
    \/ "model" \in DOMAIN body
    \/ "meta" \in DOMAIN body

\* C2 as claimed: when every tier of a summarization returns absent, the
\* request fails with an error (no result, no placeholder text) and the
\* failure value references the last attempted model.
C2_FailureNamesLastModel ==
    \A t \in Threads :
        Exhausted(th[t]) =>
            /\ th[t].response.status = 502
            /\ "summary" \notin DOMAIN th[t].response.body
            /\ Mentions(th[t].response.body, FALLBACK_MODEL)

\* C3: the result of a successful summarization carries the source tag of
\* the tier whose text it returns and the name of the model that tier
\* called, whatever model the library handle was bound to at start.
C3_TagAndModelOfProducer ==
    \A t \in Threads :
        LET s == th[t]
        IN  (s.req.k = "json" /\ Succeeded(s)) =>
            LET last == s.log[Len(s.log)]
                call == s.log[Len(s.log) - 1]
            IN  /\ s.response.body.summary = last.text.s
                /\ s.response.body.meta.source = TagOfTier(last.tier)
                /\ call.tier = last.tier
                /\ s.response.body.meta.model = call.model

Sentinel == Codes("(Vision model unavailable or failed. No analysis produced.)")

\* C4: an image request that carries an image file and gets no text from the
\* library (unavailable, nothing returned, or an exception) is answered
\* with status 200 and the sentinel text, whatever its options value.
C4_ImageFailureIsSentinel ==
    \A t \in Threads :
        LET s == th[t]
        IN  (/\ s.req.k = "form" /\ s.req.mode = "image_context"
             /\ s.req.image.k = "file" /\ s.pc = "done"
             /\ \A e \in Range(ReturnsOf(s)) : ~Truthy(e.text)) =>
            /\ s.response.status = 200
            /\ s.response.body.analysis = Sentinel

\* C5: within a request at most one provider call is outstanding, and a
\* call is issued only after the previous call has returned.
C5_Sequential ==
    \A t \in Threads :
        LET s == th[t]
        IN  /\ Cardinality(s.pending) <= 1
            /\ \A i \in 1..Len(s.log) :
                IsCall(s.log[i]) =>
                    /\ i > 1 => (IsReturn(s.log[i - 1]) /\ ~Truthy(s.log[i - 1].text))
                    /\ i < Len(s.log) =>
                        (IsReturn(s.log[i + 1]) /\ s.log[i + 1].tier = s.log[i].tier)
                    /\ i = Len(s.log) => s.pending = {s.log[i].tier}
            /\ (s.log = <<>> \/ IsReturn(s.log[Len(s.log)])) => s.pending = {}

C5_Witness ==
    \E t \in Threads :
        /\ th[t].pending = {"http_fallback"}
        /\ Len(th[t].log) = 5

\* Whether the content of a request is empty after trimming.
EmptyContent(rq) ==
    \/ /\ rq.k = "json"
       /\ rq.data.k \in {"none", "dict"}
       /\ LET text == IF rq.data.k = "dict" THEN Get(rq.data, "text") ELSE None
          IN  text.k = "none" \/ (text.k = "str" /\ Strip(text.s) = <<>>)
    \/ /\ rq.k = "form" /\ rq.mode = "image_context"
       /\ (rq.image.k = "file" => rq.image.bytes = <<>>)

\* C6: a request whose text or image bytes are empty after trimming builds
\* no prompt and makes no provider call.
C6_EmptyContentRejected ==
    \A t \in Threads :
        EmptyContent(th[t].req) => (th[t].prompt = None /\ th[t].log = <<>>)

\* C9: an image request makes at most one provider call, on the library
\* handle with the prompt and the image part, and no raw-network call.
C9_ImageLibraryOnly ==
    \A t \in Threads :
        LET s == th[t]
            calls == CallsOf(s)
        IN  s.req.k = "form" =>
            /\ Len(calls) <= 1
            /\ \A i \in 1..Len(calls) :
                /\ calls[i].tier = "vision"
                /\ _genai_model # None
                /\ calls[i].model = _genai_model.model_name
                /\ calls[i].prompt = s.prompt /\ s.prompt.k = "str"
                /\ calls[i].image = encode_image(s.req.image)
            /\ (s.pc = "done" /\ s.prompt.k = "str") =>
                Len(calls) = (IF _genai_model # None THEN 1 ELSE 0)

C9_Witness ==
    \E t \in Threads :
        /\ th[t].req.k = "form" /\ th[t].pc = "done"
        /\ Len(CallsOf(th[t])) = 1
        /\ th[t].response.body.analysis = Sentinel
        /\ API_KEY # ""

\* C10: within a summarization request each model name receives at most one
\* raw-network call, whatever DEFAULT_MODEL and FALLBACK_MODEL are.
C10_OneNetworkCallPerModel ==
    \A t \in Threads : \A m \in ModelNames :
        LET s == th[t]
        IN  Cardinality({i \in 1..Len(s.log) :
                            /\ IsCall(s.log[i])
                            /\ s.log[i].tier \in {"http_default", "http_fallback"}
                            /\ s.log[i].model = m}) <= 1

-----------------------------------------------------------------------------
(* Properties of the prompt builders                                       *)

\* The value supplied for an option, None when the key is missing.
Supplied(options, key) == Get(options, key)

\* The options with every supplied length that is not exactly short, medium
\* or detailed replaced by medium, and every supplied tone that is not
\* exactly neutral, bullet or technical replaced by neutral.
Defaulted(options) ==
    [options EXCEPT !.d =
        [key \in DOMAIN options.d |->
            IF key = Codes("length") /\ \A word \in {short, medium, detailed} : ~EqStr(options.d[key], word)
            THEN Str(medium)
            ELSE IF key = Codes("tone") /\ \A word \in {neutral, bullet, technical} : ~EqStr(options.d[key], word)
            THEN Str(neutral)
            ELSE options.d[key]]]

\* C7: for a length outside {short, medium, detailed} and a tone outside
\* {neutral, bullet, technical}, build_summary_prompt returns the prompt it
\* returns for medium and neutral, and raises no error.
C7_UnknownOptionsDefault ==
    pb.summary_prompt # None =>
        /\ pb.summary_prompt.k = "str"
        /\ pb.summary_prompt = build_summary_prompt(pb.text, Defaulted(pb.options))

\* The language directive of the summary prompt and of the image prompt.
SummaryDirective(language) == Codes(" in ") \o Format(language)
ImageDirective(language) == Codes(" Respond in ") \o Format(language) \o Codes(".")

\* The tone clauses of the summary prompt, and the fixed preamble of the
\* image prompt.
ToneClauses ==
    {Codes("neutral, factual prose"), Codes("concise bullet points"),
     Codes("precise technical language")}
ImagePreamble ==
    Codes("You are an assistant describing the provided image. ")
    \o Codes("Identify notable objects, text, and context succinctly.")

\* The options without their length and tone.
OnlyLanguage(options) ==
    IF Codes("language") \in DOMAIN options.d
    THEN Dict(<<<<Codes("language"), options.d[Codes("language")]>>>>)
    ELSE EmptyDict

\* C8: with a non-empty language the summary prompt carries the directive
\* " in <language>" right after the tone clause and the image prompt ends
\* with " Respond in <language>."; with an empty or missing language neither
\* prompt carries a directive; the image prompt is the same for every
\* length and tone.
C8_LanguageDirective ==
    LET language == Supplied(pb.options, "language")
        sp == pb.summary_prompt
        ip == pb.image_prompt
    IN  /\ sp.k = "str" =>
            IF Truthy(language)
            THEN \E tone \in ToneClauses :
                    Occurs(Codes(" using ") \o tone \o SummaryDirective(language)
                           \o Codes(". Highlight critical numbers."), sp.s)
            ELSE /\ ~Occurs(Codes(" in "), sp.s)
                 /\ \E tone \in ToneClauses :
                        Occurs(Codes(" using ") \o tone \o Codes(". Highlight critical numbers."), sp.s)
        /\ ip # None =>
            /\ ip.k = "str"
            /\ IF Truthy(language)
               THEN ip.s = ImagePreamble \o ImageDirective(language)
               ELSE ip.s = ImagePreamble /\ ~Occurs(Codes(" Respond in "), ip.s)
            /\ ip = base_prompt(OnlyLanguage(pb.options))

C8_Witness ==
    /\ Supplied(pb.options, "language") = Str(French)
    /\ Supplied(pb.options, "length") = Str(short)
    /\ Supplied(pb.options, "tone") = Str(bullet)
    /\ pb.summary_prompt.k = "str"
    /\ pb.image_prompt.k = "str"
    /\ pb.text = Codes("C")

-----------------------------------------------------------------------------
(* Module initialisation, statement by statement, followed by the service  *)

\* One call of genai.configure + genai.GenerativeModel(model).
InitAttempt(model, ok) == [model |-> model, ok |-> ok]

\* The module is about to run line 30: the environment has been read and the
\* import of google.generativeai has succeeded (lib) or not.
InitStart ==
    \E lib \in BOOLEAN, key \in {"", "key"}, model \in ModelNames :
        /\ API_KEY = key
        /\ DEFAULT_MODEL = model
        /\ _genai_model = None
        /\ th = [t \in Threads |-> Idle]
        /\ pb = NoBuild
        /\ boot = [pc |-> "start", lib |-> lib, attempts |-> <<>>]

\* `if genai and API_KEY` is false: nothing is initialised.
SkipInit ==
    /\ boot.pc = "start"
    /\ ~(boot.lib /\ API_KEY # "")
    /\ boot' = [boot EXCEPT !.pc = "ready"]
    /\ UNCHANGED <<API_KEY, DEFAULT_MODEL, _genai_model, th, pb>>

\* The outer try: configure and bind the handle to DEFAULT_MODEL.
InitDefault(ok) ==
    /\ boot.pc = "start"
    /\ boot.lib /\ API_KEY # ""
    /\ _genai_model' = InitGenaiModel(boot.lib, API_KEY, DEFAULT_MODEL, ok, FALSE)
    /\ boot' = [boot EXCEPT !.pc = IF ok THEN "ready" ELSE "fallback",
                            !.attempts = Append(@, InitAttempt(DEFAULT_MODEL, ok))]
    /\ UNCHANGED <<API_KEY, DEFAULT_MODEL, th, pb>>

\* The except branch: bind the handle to FALLBACK_MODEL, or print and go on.
InitFallback(ok) ==
    /\ boot.pc = "fallback"
    /\ _genai_model' = InitGenaiModel(boot.lib, API_KEY, DEFAULT_MODEL, FALSE, ok)
    /\ boot' = [boot EXCEPT !.pc = "ready",
                            !.attempts = Append(@, InitAttempt(FALLBACK_MODEL, ok))]
    /\ UNCHANGED <<API_KEY, DEFAULT_MODEL, th, pb>>

\* Requests are served once the module is loaded.
Serve == boot.pc = "ready" /\ Next

NextStart ==
    \/ SkipInit
    \/ \E ok \in BOOLEAN : InitDefault(ok)
    \/ \E ok \in BOOLEAN : InitFallback(ok)
    \/ Serve

SpecStart == InitStart /\ [][NextStart]_vars

-----------------------------------------------------------------------------
(* The service when every provider call returns                            *)

\* A blocking provider call of thread t returns: with a response, an
\* exception or (requests.post, timeout=40) a timeout.
ProviderReturns(t) ==
    \/ \E resp \in GenaiResponses : GenaiReturn(t, resp)
    \/ \E r \in HttpResponses : HttpDefaultReturn(t, r)
    \/ \E r \in HttpResponses : HttpFallbackReturn(t, r)
    \/ \E resp \in GenaiResponses : VisionReturn(t, resp)

SpecFair == Spec /\ \A t \in Threads : WF_vars(ProviderReturns(t))

-----------------------------------------------------------------------------
(* Properties: initialisation, failed attempts, termination                 *)

\* The arguments analyze passes to summarize for a JSON request.
SummarizeArgs(rq) ==
    [text |-> StripValue(Or(Get(rq.data, "text"), Str(<<>>))),
     options |-> Or(Get(rq.data, "options"), EmptyDict)]

\* A thread that has called summarize (and so build_summary_prompt).
InSummarize(s) ==
    /\ s.req.k = "json" /\ s.req.data.k = "dict"
    /\ Or(Get(s.req.data, "mode"), Str(summarize_mode)) = Str(summarize_mode)
    /\ SummarizeArgs(s.req).text.k = "str"
    /\ Truthy(SummarizeArgs(s.req).text)

\* The handle is bound to model m; there is no handle.
BoundTo(m) == _genai_model = GenerativeModel(m)
Unavailable == _genai_model = None

\* C12: at process start the library handle is initialised once: bound to
\* the preferred model when that initialisation succeeds, to the secondary
\* model when the preferred one fails and the secondary succeeds, and left
\* unavailable when both fail or when the library or the API key is missing;
\* the secondary model is tried only after the preferred one has failed.
C12_HandleInitialisedOnce ==
    LET a == boot.attempts
        configured == boot.lib /\ API_KEY # ""
    IN  /\ Len(a) <= 2
        /\ Cardinality({i \in DOMAIN a : a[i].ok}) <= 1
        /\ Len(a) >= 1 => configured /\ a[1].model = DEFAULT_MODEL
        /\ Len(a) = 2 => ~a[1].ok /\ a[2].model = FALLBACK_MODEL
        /\ boot.pc = "start" => a = <<>> /\ Unavailable
        /\ boot.pc = "fallback" => Len(a) = 1 /\ ~a[1].ok /\ Unavailable
        /\ boot.pc = "ready" =>
            /\ ~configured => a = <<>> /\ Unavailable
            /\ configured => Len(a) >= 1
            /\ (Len(a) = 1) => a[1].ok /\ BoundTo(DEFAULT_MODEL)
            /\ (Len(a) = 2 /\ a[2].ok) => BoundTo(FALLBACK_MODEL)
            /\ (Len(a) = 2 /\ ~a[2].ok) => Unavailable

C12_Witness ==
    /\ boot.pc = "ready"
    /\ Len(boot.attempts) = 2
    /\ boot.attempts[2].ok
    /\ DEFAULT_MODEL # FALLBACK_MODEL
    /\ BoundTo(FALLBACK_MODEL)
    /\ \E t \in Threads : th[t].pc = "done" /\ Len(CallsOf(th[t])) >= 1

\* The tiers that go through the library handle.
LibraryTiers == {"genai", "vision"}

\* C13: a library handle that is unavailable once the module is loaded stays
\* unavailable: no request binds it, and no thread ever issues a library call
\* (summarization or image), so every library-tier call returns absent
\* without reaching the library or the network.
C13_UnavailableStays ==
    [][(boot.pc = "ready" /\ Unavailable) =>
        /\ _genai_model' = None
        /\ \A t \in Threads :
            /\ \A e \in Range(th'[t].log) : e.tier \notin LibraryTiers
            /\ th'[t].pc \notin LibraryTiers]_vars

C13_Witness ==
    /\ boot.pc = "ready"
    /\ boot.lib /\ Len(boot.attempts) = 2
    /\ Unavailable
    /\ InSummarize(th["t1"]) /\ Succeeded(th["t1"])
    /\ TiersOf(CallsOf(th["t1"])) = <<"http_default">>
    /\ th["t2"].req.k = "form" /\ th["t2"].pc = "done"
    /\ th["t2"].response.status = 200
    /\ th["t2"].response.body.analysis = Sentinel
    /\ th["t2"].log = <<>>

\* The return event of a tier in a thread's log, if it has returned.
ReturnOf(s, tier) == {e \in Range(ReturnsOf(s)) : e.tier = tier}
Called(s, tier) == \E e \in Range(CallsOf(s)) : e.tier = tier

ExhaustionFailure ==
    [status |-> 502,
     body |-> [error |-> Codes("All summarization methods failed"), error_type |-> "RuntimeError"]]

\* C14: a failed attempt (library exception, network error or timeout,
\* status outside 2xx, response without a first candidate with a first text
\* part) gives absent for that attempt only: the request is never answered
\* with that attempt's error, and summarize goes on to the next tier (after
\* the last tier: to a result of an earlier tier or the exhaustion failure).
C14_FailedAttemptIsAbsent ==
    \A t \in Threads :
        LET s == th[t]
        IN  /\ \A tier \in s.failed : \A e \in ReturnOf(s, tier) : e.text = None
            /\ ("genai" \in s.failed /\ API_KEY # "") => Called(s, "http_default")
            /\ "http_default" \in s.failed => Called(s, "http_fallback")
            /\ (s.failed # {} /\ s.pc = "done") =>
                \/ s.response = ExhaustionFailure
                \/ /\ s.response.status = 200
                   /\ \E e \in Range(ReturnsOf(s)) :
                        e.tier \notin s.failed /\ e.text = Str(s.response.body.summary)

C14_Witness ==
    \E t \in Threads :
        /\ th[t].failed = {"genai", "http_default"}
        /\ Succeeded(th[t])
        /\ th[t].response.body.meta.source = "http-fallback"

\* A return that carried text which is empty once trimmed.
EmptyReturn(e) == e.text = Str(<<>>)

\* The tier summarize tries after a tier, "" after the last.
TierAfter(tier) ==
    CASE tier = "genai" -> "http_default"
      [] tier = "http_default" -> "http_fallback"
      [] OTHER -> ""

\* C15: every result summarize returns carries text that is non-empty and
\* trimmed; a tier whose text is empty, or empty after trimming, counts as
\* absent: its text is never the result and the next tier is tried.
C15_ResultTextNonEmpty ==
    \A t \in Threads :
        LET s == th[t]
        IN  InSummarize(s) =>
            /\ Succeeded(s) =>
                /\ s.response.body.summary # <<>>
                /\ Strip(s.response.body.summary) = s.response.body.summary
            /\ \A e \in Range(ReturnsOf(s)) :
                EmptyReturn(e) =>
                    /\ (TierAfter(e.tier) # "" /\ (e.tier = "genai" => API_KEY # "")) =>
                        Called(s, TierAfter(e.tier))
                    /\ s.pc = "done" =>
                        \/ s.response = ExhaustionFailure
                        \/ /\ s.response.status = 200
                           /\ \E r \in Range(ReturnsOf(s)) :
                                r.tier # e.tier /\ r.text = Str(s.response.body.summary)

C15_Witness ==
    \E t \in Threads :
        LET s == th[t]
        IN  /\ InSummarize(s) /\ Succeeded(s)
            /\ Len(ReturnsOf(s)) = 3
            /\ EmptyReturn(ReturnsOf(s)[1]) /\ EmptyReturn(ReturnsOf(s)[2])
            /\ s.failed = {}
            /\ s.response.body.summary = Codes("X")

\* A thread blocked in a provider call.
Waiting(s) == s.pc \in {"genai", "http_default", "http_fallback", "vision"}

\* The summary a successful summarization returns: the text of the first
\* tier that returned non-empty text.
FirstSuccess(s) ==
    /\ s.response.status = 200
    /\ \E i \in 1..Len(ReturnsOf(s)) :
        /\ Truthy(ReturnsOf(s)[i].text)
        /\ \A j \in 1..(i - 1) : ~Truthy(ReturnsOf(s)[j].text)
        /\ s.response.body.summary = ReturnsOf(s)[i].text.s

\* When every provider call returns, every request that waits for a provider
\* gets its response, after at most three provider calls, and issues no call
\* once it has its response.
RequestsTerminate ==
    /\ \A t \in Threads : Waiting(th[t]) ~> (th[t].pc = "done")
    /\ [][\A t \in Threads :
            /\ Len(CallsOf(th'[t])) <= 3
            /\ th[t].pc = "done" => th'[t] \in {th[t], Idle}]_vars

\* C17: when every provider call returns, every summarization request (a
\* JSON request with non-empty text and an options object) reaches exactly
\* one terminal outcome, which is either a result holding the first
\* successful tier's text or the exhaustion failure, after at most three
\* provider calls and with none outstanding.
C17_ResultOrExhaustion ==
    \A t \in Threads :
        LET s == th[t]
        IN  (InSummarize(s) /\ SummarizeArgs(s.req).options.k = "dict") =>
            /\ Len(CallsOf(s)) <= 3
            /\ s.pc # "idle"
            /\ s.pc = "done" =>
                /\ s.pending = {}
                /\ Len(ReturnsOf(s)) = Len(CallsOf(s))
                /\ FirstSuccess(s) \/ s.response = ExhaustionFailure

\* No thread has made a provider call, through the library or the network.
NoProviderCall == \A t \in Threads : th[t].log = <<>> /\ th[t].pending = {}

\* An image request that carries an image file.
ImageRequest(s) ==
    s.req.k = "form" /\ s.req.mode = "image_context" /\ s.req.image.k = "file"

\* C18: with no API key the library handle is never initialised and no
\* library or network call is ever made; every summarization request ends
\* in the exhaustion failure and every image request ends in the sentinel
\* text.
C18_NoKeyNoCalls ==
    API_KEY = "" =>
        /\ Unavailable
        /\ NoProviderCall
        /\ \A t \in Threads :
            LET s == th[t]
            IN  s.pc = "done" =>
                /\ (InSummarize(s) /\ SummarizeArgs(s.req).options.k = "dict") =>
                    s.response = ExhaustionFailure
                /\ ImageRequest(s) =>
                    /\ s.response.status = 200
                    /\ s.response.body.analysis = Sentinel

====
